---- MODULE Spec2Model ----
(***************************************************************************)
(* Model of the droplet tool registry of mcp-digitalocean:                 *)
(*   - ToolConfig / ArgumentConfig and ToolConfig.ValidateArguments        *)
(*     (pkg/registry/droplet/droplet_tools.go, ToolConfig section),        *)
(*   - GenericToolHandler (pkg/registry/droplet/tool_helpers.go),          *)
(*   - the ToolConfig handlers (pkg/registry/droplet/tool_definitions.go), *)
(*   - the legacy DropletTool / ImageTool handlers.                        *)
(*                                                                         *)
(* Texts (error messages, result bodies) are sequences of string pieces:   *)
(* fmt.Errorf("api error: %w", err) is <<"api error", ": ">> \o err.msg.   *)
(* Numbers of the argument map are float64; they are kept in fixed point,  *)
(* in units of 1/Scale, so that int(v) is a real truncation.               *)
(***************************************************************************)
EXTENDS Integers, Sequences, FiniteSets, TLC

\* ------------------------------------------------------------------------
\* Bounds of the model
\* ------------------------------------------------------------------------

\* Longest descriptor (number of ArgumentConfig entries) of SpecConfig.
MaxArgs == 3

\* Number of invocations the server runtime performs in one behaviour of Spec.
MaxInvocations == 2

\* Fixed-point unit of a float64 argument: Num(25) is 2.5 when Scale is 10.
Scale == 10

\* ------------------------------------------------------------------------
\* Dynamically typed values of an argument map (map[string]interface{})
\* ------------------------------------------------------------------------

Nil == [t |-> "nil", n |-> 0, s |-> "", b |-> FALSE, a |-> <<>>]

Num(x) == [t |-> "number", n |-> x, s |-> "", b |-> FALSE, a |-> <<>>]

Str(x) == [t |-> "string", n |-> 0, s |-> x, b |-> FALSE, a |-> <<>>]

Bool(x) == [t |-> "boolean", n |-> 0, s |-> "", b |-> x, a |-> <<>>]

Arr(x) == [t |-> "array", n |-> 0, s |-> "", b |-> FALSE, a |-> x]

\* Go's int(v) of a float64: truncation toward zero.
TruncInt(n) == IF n >= 0 THEN n \div Scale ELSE -((-n) \div Scale)

\* A Go error value: nil, or a message.
NoError == [nil |-> TRUE, msg |-> <<>>]

Error(m) == [nil |-> FALSE, msg |-> m]

\* fmt.Errorf(prefix + ": %w", err)
Wrap(prefix, err) == Error(<<prefix, ": ">> \o err.msg)

\* ------------------------------------------------------------------------
\* ArgumentConfig, ToolConfig
\* ------------------------------------------------------------------------

ArgumentTypeString == "string"

ArgumentTypeNumber == "number"

ArgumentTypeBoolean == "boolean"

ArgumentTypeArray == "array"

ArgumentTypeObject == "object"

\* An ArgumentConfig; DefaultValue is Nil when the literal leaves it out.
ArgumentConfig(name, type, desc, required, default) ==
    [Name |-> name, Type |-> type, Description |-> desc,
     Required |-> required, DefaultValue |-> default]

\* Faulty variant: the default of Page is the string "1".
dropletListConfig_StringDefault ==
    [Name |-> "droplet-list",
     Description |-> "List all droplets for the user. Supports pagination.",
     Arguments |-> <<
        ArgumentConfig("Page", ArgumentTypeNumber, "Page number", FALSE, Str("1")),
        ArgumentConfig("PerPage", ArgumentTypeNumber, "Items per page", FALSE, Num(50 * Scale))
     >>]

dropletListConfig ==
    [Name |-> "droplet-list",
     Description |-> "List all droplets for the user. Supports pagination.",
     Arguments |-> <<
        ArgumentConfig("Page", ArgumentTypeNumber, "Page number", FALSE, Num(1 * Scale)),
        ArgumentConfig("PerPage", ArgumentTypeNumber, "Items per page", FALSE, Num(50 * Scale))
     >>]

\* Faulty variant: ID is declared optional.
dropletGetConfig_IDOptional ==
    [Name |-> "droplet-get",
     Description |-> "Get a droplet by its ID",
     Arguments |-> <<
        ArgumentConfig("ID", ArgumentTypeNumber, "Droplet ID", FALSE, Nil)
     >>]

dropletGetConfig ==
    [Name |-> "droplet-get",
     Description |-> "Get a droplet by its ID",
     Arguments |-> <<
        ArgumentConfig("ID", ArgumentTypeNumber, "Droplet ID", TRUE, Nil)
     >>]

dropletCreateConfig ==
    [Name |-> "droplet-create",
     Description |-> "Create a new droplet",
     Arguments |-> <<
        ArgumentConfig("Name", ArgumentTypeString, "Name of the droplet", TRUE, Nil),
        ArgumentConfig("Size", ArgumentTypeString, "Slug of the droplet size", TRUE, Nil),
        ArgumentConfig("ImageID", ArgumentTypeNumber, "ID of the image to use", TRUE, Nil),
        ArgumentConfig("Region", ArgumentTypeString, "Slug of the region", TRUE, Nil),
        ArgumentConfig("Backup", ArgumentTypeBoolean, "Whether to enable backups", FALSE, Bool(FALSE)),
        ArgumentConfig("Monitoring", ArgumentTypeBoolean, "Whether to enable monitoring", FALSE, Bool(FALSE)),
        ArgumentConfig("SSHKeys", ArgumentTypeArray, "Array of SSH key IDs or fingerprints", FALSE, Nil),
        ArgumentConfig("Tags", ArgumentTypeArray, "Array of tag names", FALSE, Nil)
     >>]

dropletDeleteConfig ==
    [Name |-> "droplet-delete",
     Description |-> "Delete a droplet",
     Arguments |-> <<
        ArgumentConfig("ID", ArgumentTypeNumber, "ID of the droplet to delete", TRUE, Nil)
     >>]

dropletNeighborsConfig ==
    [Name |-> "droplet-neighbors",
     Description |-> "Get a droplet's neighbors",
     Arguments |-> <<
        ArgumentConfig("ID", ArgumentTypeNumber, "ID of the droplet", TRUE, Nil)
     >>]

\* ------------------------------------------------------------------------
\* ToolConfig.ValidateArguments
\* ------------------------------------------------------------------------

MissingError(name) == Error(<<"missing required argument: ", name>>)

RECURSIVE ValidateFrom_NilIsMissing(_, _, _)
ValidateFrom_NilIsMissing(arguments, args, i) ==
    IF i > Len(arguments) THEN NoError
    ELSE IF /\ arguments[i].Required
            /\ \/ arguments[i].Name \notin DOMAIN args
               \/ args[arguments[i].Name].t = "nil"
         THEN MissingError(arguments[i].Name)
         ELSE ValidateFrom_NilIsMissing(arguments, args, i + 1)

\* Faulty variant: a key whose value is nil counts as missing (val == nil
\* tested instead of !ok).
ValidateArguments_NilIsMissing(arguments, args) ==
    ValidateFrom_NilIsMissing(arguments, args, 1)

RECURSIVE ValidateFrom_LastMissing(_, _, _, _)
ValidateFrom_LastMissing(arguments, args, i, err) ==
    IF i > Len(arguments) THEN err
    ELSE IF arguments[i].Required /\ arguments[i].Name \notin DOMAIN args
         THEN ValidateFrom_LastMissing(arguments, args, i + 1,
                                       MissingError(arguments[i].Name))
         ELSE ValidateFrom_LastMissing(arguments, args, i + 1, err)

\* Faulty variant: the loop records the error and goes on, so the last
\* missing argument wins.
ValidateArguments_LastMissing(arguments, args) ==
    ValidateFrom_LastMissing(arguments, args, 1, NoError)

\* for _, arg := range tc.Arguments, from index i on: return at the first
\* required argument that is no key of the map.
RECURSIVE ValidateFrom(_, _, _)
ValidateFrom(arguments, args, i) ==
    IF i > Len(arguments) THEN NoError
    ELSE IF arguments[i].Required /\ arguments[i].Name \notin DOMAIN args
         THEN MissingError(arguments[i].Name)
         ELSE ValidateFrom(arguments, args, i + 1)

ValidateArguments(arguments, args) == ValidateFrom(arguments, args, 1)

\* ------------------------------------------------------------------------
\* ToolConfig.BuildMCPTool
\* ------------------------------------------------------------------------

\* prop := map[string]interface{}{"type": ..., "description": ...}, with
\* "default" added when arg.DefaultValue != nil.
PropertyOf(arg) ==
    LET prop == [k \in {"type", "description"} |->
                    IF k = "type" THEN Str(arg.Type) ELSE Str(arg.Description)]
    IN IF arg.DefaultValue.t # "nil"
       THEN [k \in DOMAIN prop \cup {"default"} |->
                IF k = "default" THEN arg.DefaultValue ELSE prop[k]]
       ELSE prop

RECURSIVE BuildFrom_AllRequired(_, _, _, _)
BuildFrom_AllRequired(arguments, i, properties, required) ==
    IF i > Len(arguments) THEN [properties |-> properties, required |-> required]
    ELSE LET arg == arguments[i]
         IN BuildFrom_AllRequired(arguments, i + 1,
                [k \in DOMAIN properties \cup {arg.Name} |->
                    IF k = arg.Name THEN PropertyOf(arg) ELSE properties[k]],
                Append(required, arg.Name))

\* Faulty variant: every argument is listed as required.
BuildMCPTool_AllRequired(tc) ==
    LET built == BuildFrom_AllRequired(tc.Arguments, 1, [k \in {} |-> Nil], <<>>)
    IN [Name |-> tc.Name, Description |-> tc.Description,
        InputSchema |-> [Type |-> "object", Properties |-> built.properties,
                         Required |-> built.required]]

\* for _, arg := range tc.Arguments, from index i on: properties[arg.Name] =
\* prop, and the name is appended to required when arg.Required.
RECURSIVE BuildFrom(_, _, _, _)
BuildFrom(arguments, i, properties, required) ==
    IF i > Len(arguments) THEN [properties |-> properties, required |-> required]
    ELSE LET arg == arguments[i]
         IN BuildFrom(arguments, i + 1,
                [k \in DOMAIN properties \cup {arg.Name} |->
                    IF k = arg.Name THEN PropertyOf(arg) ELSE properties[k]],
                IF arg.Required THEN Append(required, arg.Name) ELSE required)

\* Faulty variant: the required list is never set.
BuildMCPTool_NoRequired(tc) ==
    LET built == BuildFrom(tc.Arguments, 1, [k \in {} |-> Nil], <<>>)
    IN [Name |-> tc.Name, Description |-> tc.Description,
        InputSchema |-> [Type |-> "object", Properties |-> built.properties,
                         Required |-> <<>>]]

\* mcp.Tool{Name, Description, InputSchema{Type: "object", Properties,
\* Required}}; a Required left unset is the empty list.
BuildMCPTool(tc) ==
    LET built == BuildFrom(tc.Arguments, 1, [k \in {} |-> Nil], <<>>)
    IN [Name |-> tc.Name, Description |-> tc.Description,
        InputSchema |-> [Type |-> "object", Properties |-> built.properties,
                         Required |-> built.required]]

\* ------------------------------------------------------------------------
\* Go values that reach json.MarshalIndent, and json.MarshalIndent
\* ------------------------------------------------------------------------

JNull == [k |-> "null", n |-> 0, s |-> "", e |-> <<>>, f |-> <<>>]

JString(x) == [k |-> "string", n |-> 0, s |-> x, e |-> <<>>, f |-> <<>>]

JInt(x) == [k |-> "int", n |-> x, s |-> "", e |-> <<>>, f |-> <<>>]

\* A float64 field; NaN is the value encoding/json refuses.
JFloat(x) == [k |-> "float", n |-> x, s |-> "", e |-> <<>>, f |-> <<>>]

JNaN == [k |-> "float", n |-> 0, s |-> "NaN", e |-> <<>>, f |-> <<>>]

JArray(elems) == [k |-> "array", n |-> 0, s |-> "", e |-> elems, f |-> <<>>]

\* A struct or a map: field names f, field values e, in the order written.
JObject(names, elems) == [k |-> "object", n |-> 0, s |-> "", e |-> elems, f |-> names]

Marshalled(text) == [ok |-> TRUE, text |-> text, err |-> NoError]

MarshalFailed(err) == [ok |-> FALSE, text |-> <<>>, err |-> err]

NewLine == "\n"

IndentUnit == "  "

RECURSIVE Indent(_)
Indent(depth) == IF depth <= 0 THEN <<>> ELSE <<IndentUnit>> \o Indent(depth - 1)

RECURSIVE MarshalIndent(_, _)
RECURSIVE MarshalItems(_, _, _, _)

\* The items i.. of an array (names = <<>>) or object at the given depth,
\* each on its own indented line, separated by commas.
MarshalItems(names, elems, i, depth) ==
    IF i > Len(elems) THEN Marshalled(<<>>)
    ELSE LET one  == MarshalIndent(elems[i], depth)
             rest == MarshalItems(names, elems, i + 1, depth)
             key  == IF names = <<>> THEN <<>>
                     ELSE <<"\"", names[i], "\"", ": ">>
             sep  == IF i < Len(elems) THEN <<",">> ELSE <<>>
         IN IF ~one.ok THEN one
            ELSE IF ~rest.ok THEN rest
            ELSE Marshalled(<<NewLine>> \o Indent(depth) \o key \o one.text
                            \o sep \o rest.text)

\* json.MarshalIndent(v, "", "  ") of a value nested at the given depth.
MarshalIndent(v, depth) ==
    CASE v.k = "null"   -> Marshalled(<<"null">>)
      [] v.k = "string" -> Marshalled(<<"\"", v.s, "\"">>)
      [] v.k = "int"    -> Marshalled(<<ToString(v.n)>>)
      [] v.k = "float"  ->
            IF v.s = "NaN"
            THEN MarshalFailed(Error(<<"json: unsupported value: ", "NaN">>))
            ELSE Marshalled(<<ToString(v.n)>>)
      [] v.k = "array"  ->
            IF v.e = <<>> THEN Marshalled(<<"[]">>)
            ELSE LET items == MarshalItems(<<>>, v.e, 1, depth + 1)
                 IN IF ~items.ok THEN items
                    ELSE Marshalled(<<"[">> \o items.text \o <<NewLine>>
                                    \o Indent(depth) \o <<"]">>)
      [] v.k = "object" ->
            IF v.e = <<>> THEN Marshalled(<<"{}">>)
            ELSE LET items == MarshalItems(v.f, v.e, 1, depth + 1)
                 IN IF ~items.ok THEN items
                    ELSE Marshalled(<<"{">> \o items.text \o <<NewLine>>
                                    \o Indent(depth) \o <<"}">>)

\* ------------------------------------------------------------------------
\* godo values the upstream client returns
\* ------------------------------------------------------------------------

\* A *godo.Droplet: nil, or a droplet; PriceMonthly is the float64 of its Size.
NilDroplet == [nil |-> TRUE, ID |-> 0, Name |-> "", PriceMonthly |-> JFloat(0)]

Droplet(id, name, price) ==
    [nil |-> FALSE, ID |-> id, Name |-> name, PriceMonthly |-> price]

\* The struct fields of godo.Droplet kept by the model, as encoding/json sees them.
DropletFields(d) ==
    JObject(<<"id", "name", "size">>,
            <<JInt(d.ID), JString(d.Name),
              JObject(<<"price_monthly">>, <<d.PriceMonthly>>)>>)

\* A *godo.Droplet handed to json.MarshalIndent.
DropletPointer(d) == IF d.nil THEN JNull ELSE DropletFields(d)

RECURSIVE DropletSlice(_, _)
\* A []godo.Droplet handed to json.MarshalIndent, from element i on.
DropletSlice(ds, i) ==
    IF i > Len(ds) THEN <<>> ELSE <<DropletFields(ds[i])>> \o DropletSlice(ds, i + 1)

\* The upstream stub's answer to one call: (value, error).
Response(val, err) == [val |-> val, err |-> err]

\* ------------------------------------------------------------------------
\* Requests sent to the upstream client
\* ------------------------------------------------------------------------

\* godo.ListOptions
ListOptions(page, perPage) == [Page |-> page, PerPage |-> perPage]

NoOptions == ListOptions(0, 0)

\* The zero godo.DropletCreateRequest / godo.DropletMultiCreateRequest; a nil
\* pointer field is "nil", a nil slice is <<>>.
ZeroCreateRequest ==
    [Names |-> <<>>, Name |-> "", Size |-> "", Image |-> 0, Region |-> "",
     Backups |-> FALSE, Monitoring |-> FALSE, IPv6 |-> FALSE, VPCUUID |-> "",
     UserData |-> "", Volumes |-> <<>>, WithDropletAgent |-> "nil",
     BackupPolicy |-> "nil", SSHKeys |-> <<>>, Tags |-> <<>>]

\* One call on the upstream client: the method and what it is given.
Request(method, id, opt, body) ==
    [method |-> method, id |-> id, actionID |-> 0, opt |-> opt, body |-> body]

NoRequest == Request("none", 0, NoOptions, ZeroCreateRequest)

\* godo.DropletCreateSSHKey
DropletCreateSSHKey(id, fingerprint) == [ID |-> id, Fingerprint |-> fingerprint]

\* ------------------------------------------------------------------------
\* GetArgument* helpers of the ToolConfig system
\* ------------------------------------------------------------------------

GetArgumentString(args, name) ==
    IF name \in DOMAIN args /\ args[name].t = "string" THEN args[name].s ELSE ""

\* The argument map of a decoded request carries numbers as float64.
GetArgumentNumber(args, name) ==
    IF name \in DOMAIN args /\ args[name].t = "number"
    THEN TruncInt(args[name].n) ELSE 0

GetArgumentBoolean(args, name) ==
    IF name \in DOMAIN args /\ args[name].t = "boolean" THEN args[name].b ELSE FALSE

\* nil (here: isNil) unless the key holds an array.
GetArgumentArray(args, name) ==
    IF name \in DOMAIN args /\ args[name].t = "array"
    THEN [isNil |-> FALSE, a |-> args[name].a]
    ELSE [isNil |-> TRUE, a |-> <<>>]

\* ------------------------------------------------------------------------
\* ToolConfig handlers (tool_definitions.go): each is split at its upstream
\* call. <handler>Call is the code up to and including the call (or an early
\* return), <handler>Return the code after the call returned.
\* ------------------------------------------------------------------------

\* An early return of a handler, without an upstream call.
EarlyReturn(val, err) == [early |-> TRUE, val |-> val, err |-> err, req |-> NoRequest]

\* The handler issues the upstream call req.
Calls(req) == [early |-> FALSE, val |-> JNull, err |-> NoError, req |-> req]

\* What a handler returns: (interface{}, error).
HandlerResult(val, err) == [val |-> val, err |-> err]

DefaultPage == 1

DefaultPerPage == 50

\* Faulty variant: a zero page or page size is sent as it is.
handleDropletListCall_NoDefault(args) ==
    Calls(Request("Droplets.List", 0,
                  ListOptions(GetArgumentNumber(args, "Page"),
                              GetArgumentNumber(args, "PerPage")),
                  ZeroCreateRequest))

handleDropletListCall(args) ==
    LET page    == IF GetArgumentNumber(args, "Page") = 0 THEN DefaultPage
                   ELSE GetArgumentNumber(args, "Page")
        perPage == IF GetArgumentNumber(args, "PerPage") = 0 THEN DefaultPerPage
                   ELSE GetArgumentNumber(args, "PerPage")
    IN Calls(Request("Droplets.List", 0, ListOptions(page, perPage), ZeroCreateRequest))

RECURSIVE FilteredDroplets(_, _)
\* filteredDroplets[i] = map[string]any{...}; encoding/json writes a map's
\* keys sorted, which is the order given here.
FilteredDroplets(ds, i) ==
    IF i > Len(ds) THEN <<>>
    ELSE <<JObject(<<"id", "name", "size">>,
                   <<JInt(ds[i].ID), JString(ds[i].Name),
                     JObject(<<"price_monthly">>, <<ds[i].PriceMonthly>>)>>)>>
         \o FilteredDroplets(ds, i + 1)

handleDropletListReturn(resp) ==
    IF ~resp.err.nil THEN HandlerResult(JNull, Wrap("api error", resp.err))
    ELSE HandlerResult(JArray(FilteredDroplets(resp.val.many, 1)), NoError)

\* Faulty variant: the check of id == 0 is missing.
handleDropletGetCall_NoZeroCheck(args) ==
    Calls(Request("Droplets.Get", GetArgumentNumber(args, "ID"), NoOptions,
                  ZeroCreateRequest))

handleDropletGetCall(args) ==
    LET id == GetArgumentNumber(args, "ID")
    IN IF id = 0 THEN EarlyReturn(JNull, Error(<<"Droplet ID is required">>))
       ELSE Calls(Request("Droplets.Get", id, NoOptions, ZeroCreateRequest))

handleDropletGetReturn(resp) ==
    IF ~resp.err.nil THEN HandlerResult(JNull, Wrap("api error", resp.err))
    ELSE HandlerResult(DropletPointer(resp.val.one), NoError)

RECURSIVE SSHKeysOf_Reversed(_, _)
\* Faulty variant: each key is put in front of the ones collected so far.
SSHKeysOf_Reversed(raw, i) ==
    IF i > Len(raw) THEN <<>>
    ELSE SSHKeysOf_Reversed(raw, i + 1)
         \o (CASE raw[i].t = "number" -> <<DropletCreateSSHKey(TruncInt(raw[i].n), "")>>
                [] raw[i].t = "string" -> <<DropletCreateSSHKey(0, raw[i].s)>>
                [] OTHER -> <<>>)

RECURSIVE SSHKeysOf(_, _)
\* The loop over sshKeysRaw: float64 -> ID, string -> Fingerprint, else nothing.
SSHKeysOf(raw, i) ==
    IF i > Len(raw) THEN <<>>
    ELSE (CASE raw[i].t = "number" -> <<DropletCreateSSHKey(TruncInt(raw[i].n), "")>>
            [] raw[i].t = "string" -> <<DropletCreateSSHKey(0, raw[i].s)>>
            [] OTHER -> <<>>)
         \o SSHKeysOf(raw, i + 1)

RECURSIVE TagsOf(_, _)
\* The loop over tagsRaw: the string elements.
TagsOf(raw, i) ==
    IF i > Len(raw) THEN <<>>
    ELSE (IF raw[i].t = "string" THEN <<raw[i].s>> ELSE <<>>) \o TagsOf(raw, i + 1)

\* Faulty variant: a required argument of the wrong type ends the handler
\* with an error.
handleDropletCreateCall_TypeChecked(args) ==
    IF LET isA(key, type) == key \in DOMAIN args /\ args[key].t = type
       IN \/ ~isA("Name", "string") \/ ~isA("Size", "string")
          \/ ~isA("ImageID", "number") \/ ~isA("Region", "string")
    THEN EarlyReturn(JNull, Error(<<"invalid argument type">>))
    ELSE Calls(Request("Droplets.Create", 0, NoOptions,
             [ZeroCreateRequest EXCEPT
                !.Name = GetArgumentString(args, "Name"),
                !.Size = GetArgumentString(args, "Size"),
                !.Image = GetArgumentNumber(args, "ImageID"),
                !.Region = GetArgumentString(args, "Region")]))

handleDropletCreateCall(args) ==
    LET sshKeysRaw == GetArgumentArray(args, "SSHKeys")
        tagsRaw    == GetArgumentArray(args, "Tags")
    IN Calls(Request("Droplets.Create", 0, NoOptions,
             [ZeroCreateRequest EXCEPT
                !.Name = GetArgumentString(args, "Name"),
                !.Size = GetArgumentString(args, "Size"),
                !.Image = GetArgumentNumber(args, "ImageID"),
                !.Region = GetArgumentString(args, "Region"),
                !.Backups = GetArgumentBoolean(args, "Backup"),
                !.Monitoring = GetArgumentBoolean(args, "Monitoring"),
                !.SSHKeys = IF sshKeysRaw.isNil THEN <<>> ELSE SSHKeysOf(sshKeysRaw.a, 1),
                !.Tags = IF tagsRaw.isNil THEN <<>> ELSE TagsOf(tagsRaw.a, 1)]))

\* Faulty variant: the error is wrapped without %w, so the cause is lost.
handleDropletCreateReturn_DropCause(resp) ==
    IF ~resp.err.nil THEN HandlerResult(JNull, Error(<<"droplet create">>))
    ELSE HandlerResult(DropletPointer(resp.val.one), NoError)

handleDropletCreateReturn(resp) ==
    IF ~resp.err.nil THEN HandlerResult(JNull, Wrap("droplet create", resp.err))
    ELSE HandlerResult(DropletPointer(resp.val.one), NoError)

handleDropletDeleteCall(args) ==
    LET dropletID == GetArgumentNumber(args, "ID")
    IN IF dropletID = 0 THEN EarlyReturn(JNull, Error(<<"Droplet ID is required">>))
       ELSE Calls(Request("Droplets.Delete", dropletID, NoOptions, ZeroCreateRequest))

\* Faulty variant: the confirmation text is worded differently.
handleDropletDeleteReturn_OtherText(resp) ==
    IF ~resp.err.nil THEN HandlerResult(JNull, Wrap("api error", resp.err))
    ELSE HandlerResult(JString("Droplet deleted"), NoError)

handleDropletDeleteReturn(resp) ==
    IF ~resp.err.nil THEN HandlerResult(JNull, Wrap("api error", resp.err))
    ELSE HandlerResult(JString("Droplet deleted successfully"), NoError)

\* Faulty variant: the ID is passed on without the test for 0.
handleDropletNeighborsCall_ZeroAllowed(args) ==
    Calls(Request("Droplets.Neighbors", GetArgumentNumber(args, "ID"), NoOptions,
                  ZeroCreateRequest))

handleDropletNeighborsCall(args) ==
    LET dropletID == GetArgumentNumber(args, "ID")
    IN IF dropletID = 0 THEN EarlyReturn(JNull, Error(<<"Droplet ID is required">>))
       ELSE Calls(Request("Droplets.Neighbors", dropletID, NoOptions, ZeroCreateRequest))

handleDropletNeighborsReturn(resp) ==
    IF ~resp.err.nil THEN HandlerResult(JNull, Wrap("api error", resp.err))
    ELSE HandlerResult(JArray(DropletSlice(resp.val.many, 1)), NoError)

\* The tools DropletTool.Tools registers through BuildServerTool.
GenericTools ==
    {"droplet-list", "droplet-get", "droplet-create", "droplet-delete",
     "droplet-neighbors"}

\* config of the tool registered under a name.
ConfigOf(name) ==
    CASE name = "droplet-list"      -> dropletListConfig
      [] name = "droplet-get"       -> dropletGetConfig
      [] name = "droplet-create"    -> dropletCreateConfig
      [] name = "droplet-delete"    -> dropletDeleteConfig
      [] name = "droplet-neighbors" -> dropletNeighborsConfig

\* config.Handler(ctx, client, args), up to its upstream call.
HandlerCallOf(name, args) ==
    CASE name = "droplet-list"      -> handleDropletListCall(args)
      [] name = "droplet-get"       -> handleDropletGetCall(args)
      [] name = "droplet-create"    -> handleDropletCreateCall(args)
      [] name = "droplet-delete"    -> handleDropletDeleteCall(args)
      [] name = "droplet-neighbors" -> handleDropletNeighborsCall(args)

\* config.Handler(ctx, client, args), after its upstream call returned.
HandlerReturnOf(name, resp) ==
    CASE name = "droplet-list"      -> handleDropletListReturn(resp)
      [] name = "droplet-get"       -> handleDropletGetReturn(resp)
      [] name = "droplet-create"    -> handleDropletCreateReturn(resp)
      [] name = "droplet-delete"    -> handleDropletDeleteReturn(resp)
      [] name = "droplet-neighbors" -> handleDropletNeighborsReturn(resp)

\* ------------------------------------------------------------------------
\* mcp.CallToolResult and the (result, error) pair an entry point returns
\* ------------------------------------------------------------------------

NilResult == [nil |-> TRUE, isError |-> FALSE, text |-> <<>>]

\* mcp.NewToolResultText(text)
NewToolResultText(text) == [nil |-> FALSE, isError |-> FALSE, text |-> text]

\* mcp.NewToolResultError(text)
NewToolResultError(text) == [nil |-> FALSE, isError |-> TRUE, text |-> text]

\* mcp.NewToolResultErrorFromErr(text, err): "<text>: <err>"
NewToolResultErrorFromErr(text, err) ==
    [nil |-> FALSE, isError |-> TRUE, text |-> <<text, ": ">> \o err.msg]

Returned(result, err) == [result |-> result, err |-> err]

\* ------------------------------------------------------------------------
\* GenericToolHandler (tool_helpers.go), after config.Handler returned
\* ------------------------------------------------------------------------

\* Faulty variant: the handler's error is returned as a Go error.
GenericRespond_PropagateError(hret) ==
    IF ~hret.err.nil THEN Returned(NilResult, Wrap("api error", hret.err))
    ELSE IF hret.val.k = "string" THEN Returned(NewToolResultText(<<hret.val.s>>), NoError)
    ELSE LET jsonData == MarshalIndent(hret.val, 0)
         IN IF ~jsonData.ok
            THEN Returned(NilResult, Wrap("json marshal error", jsonData.err))
            ELSE Returned(NewToolResultText(jsonData.text), NoError)

\* Faulty variant: the string case is missing, every value is marshalled.
GenericRespond_MarshalAll(hret) ==
    IF ~hret.err.nil
    THEN Returned(NewToolResultErrorFromErr("api error", hret.err), NoError)
    ELSE LET jsonData == MarshalIndent(hret.val, 0)
         IN IF ~jsonData.ok
            THEN Returned(NilResult, Wrap("json marshal error", jsonData.err))
            ELSE Returned(NewToolResultText(jsonData.text), NoError)

\* Faulty variant: an error that wraps context.Canceled is returned as a Go
\* error.
GenericRespond_CancelIsHard(hret) ==
    IF ~hret.err.nil /\ hret.err.msg[Len(hret.err.msg)] = "context canceled"
    THEN Returned(NilResult, hret.err)
    ELSE IF ~hret.err.nil
    THEN Returned(NewToolResultErrorFromErr("api error", hret.err), NoError)
    ELSE IF hret.val.k = "string" THEN Returned(NewToolResultText(<<hret.val.s>>), NoError)
    ELSE LET jsonData == MarshalIndent(hret.val, 0)
         IN IF ~jsonData.ok
            THEN Returned(NilResult, Wrap("json marshal error", jsonData.err))
            ELSE Returned(NewToolResultText(jsonData.text), NoError)

\* Faulty variant: a failed serialization returns a fault result together
\* with the Go error.
GenericRespond_ResultAndError(hret) ==
    IF ~hret.err.nil
    THEN Returned(NewToolResultErrorFromErr("api error", hret.err), NoError)
    ELSE IF hret.val.k = "string" THEN Returned(NewToolResultText(<<hret.val.s>>), NoError)
    ELSE LET jsonData == MarshalIndent(hret.val, 0)
         IN IF ~jsonData.ok
            THEN Returned(NewToolResultErrorFromErr("json marshal error", jsonData.err),
                          Wrap("json marshal error", jsonData.err))
            ELSE Returned(NewToolResultText(jsonData.text), NoError)

\* Lines 31-46: error -> fault result; string -> verbatim; else indented JSON,
\* whose failure is a Go error.
GenericRespond(hret) ==
    IF ~hret.err.nil
    THEN Returned(NewToolResultErrorFromErr("api error", hret.err), NoError)
    ELSE IF hret.val.k = "string" THEN Returned(NewToolResultText(<<hret.val.s>>), NoError)
    ELSE LET jsonData == MarshalIndent(hret.val, 0)
         IN IF ~jsonData.ok
            THEN Returned(NilResult, Wrap("json marshal error", jsonData.err))
            ELSE Returned(NewToolResultText(jsonData.text), NoError)

\* ------------------------------------------------------------------------
\* Legacy handlers (DropletTool, ImageTool methods). <method>Call is the code
\* before d.client(ctx): it panics on a failed type assertion, returns a
\* fault result, or builds the request. <method>Return is the code after the
\* upstream call returned.
\* ------------------------------------------------------------------------

LegacyPanic == [outcome |-> "panic", result |-> NilResult, req |-> NoRequest]

LegacyFault(result) == [outcome |-> "fault", result |-> result, req |-> NoRequest]

LegacyCalls(req) == [outcome |-> "call", result |-> NilResult, req |-> req]

\* args[key].(float64) and the like: does the assertion hold?
IsA(args, key, type) == key \in DOMAIN args /\ args[key].t = type

\* getNumberArg(args, key, defaultValue), then int(...)
getNumberArg(args, key, defaultValue) ==
    IF IsA(args, key, "number") THEN TruncInt(args[key].n) ELSE defaultValue

\* The legacy ending shared by the get/list handlers: upstream error -> fault
\* "api error"; marshal failure -> Go error "marshal error"; else the JSON text.
LegacyJSON(prefix, resp, val) ==
    IF ~resp.err.nil THEN Returned(NewToolResultErrorFromErr(prefix, resp.err), NoError)
    ELSE LET jsonData == MarshalIndent(val, 0)
         IN IF ~jsonData.ok THEN Returned(NilResult, Wrap("marshal error", jsonData.err))
            ELSE Returned(NewToolResultText(jsonData.text), NoError)

\* A *godo.Action handed to json.MarshalIndent.
ActionPointer(a) ==
    IF a.nil THEN JNull
    ELSE JObject(<<"id", "status">>, <<JInt(a.ID), JString(a.Status)>>)

enablePrivateNetworkingCall(args) ==
    IF ~IsA(args, "ID", "number") THEN LegacyPanic
    ELSE LegacyCalls(Request("DropletActions.EnablePrivateNetworking",
                             TruncInt(args["ID"].n), NoOptions, ZeroCreateRequest))

enablePrivateNetworkingReturn(resp) ==
    LegacyJSON("api error", resp, ActionPointer(resp.val.action))

\* The kernel listing always asks for page 1 of 100.
getDropletKernelsCall(args) ==
    IF ~IsA(args, "ID", "number") THEN LegacyPanic
    ELSE LegacyCalls(Request("Droplets.Kernels", TruncInt(args["ID"].n),
                             ListOptions(1, 100), ZeroCreateRequest))

getDropletKernelsReturn(resp) ==
    LegacyJSON("api error", resp, resp.val.other)

getDropletNeighborsCall(args) ==
    IF ~IsA(args, "ID", "number") THEN LegacyPanic
    ELSE LegacyCalls(Request("Droplets.Neighbors", TruncInt(args["ID"].n), NoOptions,
                             ZeroCreateRequest))

getDropletBackupPolicyCall(args) ==
    IF ~IsA(args, "ID", "number")
    THEN LegacyFault(NewToolResultError(<<"Droplet ID is required">>))
    ELSE LegacyCalls(Request("Droplets.GetBackupPolicy", TruncInt(args["ID"].n),
                             NoOptions, ZeroCreateRequest))

getDropletActionByIDCall(args) ==
    IF ~IsA(args, "DropletID", "number")
    THEN LegacyFault(NewToolResultError(<<"DropletID is required">>))
    ELSE IF ~IsA(args, "ActionID", "number")
    THEN LegacyFault(NewToolResultError(<<"ActionID is required">>))
    ELSE LegacyCalls([Request("DropletActions.Get", TruncInt(args["DropletID"].n),
                              NoOptions, ZeroCreateRequest)
                        EXCEPT !.actionID = TruncInt(args["ActionID"].n)])

\* getListOptions(req): Page and PerPage, 1 and 50 when no number is given.
getListOptions(args) ==
    ListOptions(getNumberArg(args, "Page", 1), getNumberArg(args, "PerPage", 50))

\* listDropletSnapshots, listDropletBackups and listDropletActions of
\* droplet_tools.go differ in the upstream method only: the ID is tested, the
\* paging read with getNumberArg.
listDropletCall(method, args) ==
    IF ~IsA(args, "ID", "number")
    THEN LegacyFault(NewToolResultError(<<"Droplet ID is required">>))
    ELSE LegacyCalls(Request(method, TruncInt(args["ID"].n),
                             ListOptions(getNumberArg(args, "Page", 1),
                                         getNumberArg(args, "PerPage", 50)),
                             ZeroCreateRequest))

\* The same three handlers in the file that reads the paging with
\* getListOptions: the ID is asserted without a test.
listDropletAssertingCall(method, args) ==
    IF ~IsA(args, "ID", "number") THEN LegacyPanic
    ELSE LegacyCalls(Request(method, TruncInt(args["ID"].n), getListOptions(args),
                             ZeroCreateRequest))

getDropletByIDCall(args) ==
    IF ~IsA(args, "ID", "number")
    THEN LegacyFault(NewToolResultError(<<"Droplet ID is required">>))
    ELSE LegacyCalls(Request("Droplets.Get", TruncInt(args["ID"].n), NoOptions,
                             ZeroCreateRequest))

getDropletByIDReturn(resp) ==
    LegacyJSON("api error", resp, DropletPointer(resp.val.one))

getDropletsCall(args) ==
    LegacyCalls(Request("Droplets.List", 0,
                        ListOptions(getNumberArg(args, "Page", DefaultPage),
                                    getNumberArg(args, "PerPage", DefaultPerPage)),
                        ZeroCreateRequest))

\* formatDropletSummaries: the same filtered maps, marshalled.
formatDropletSummaries(droplets) == MarshalIndent(JArray(FilteredDroplets(droplets, 1)), 0)

getDropletsReturn(resp) ==
    IF ~resp.err.nil
    THEN Returned(NewToolResultErrorFromErr("api error", resp.err), NoError)
    ELSE LET jsonData == formatDropletSummaries(resp.val.many)
         IN IF ~jsonData.ok THEN Returned(NilResult, Wrap("marshal error", jsonData.err))
            ELSE Returned(NewToolResultText(jsonData.text), NoError)

deleteDropletCall(args) ==
    IF ~IsA(args, "ID", "number") THEN LegacyPanic
    ELSE LegacyCalls(Request("Droplets.Delete", TruncInt(args["ID"].n), NoOptions,
                             ZeroCreateRequest))

deleteDropletReturn(resp) ==
    IF ~resp.err.nil
    THEN Returned(NewToolResultErrorFromErr("api error", resp.err), NoError)
    ELSE Returned(NewToolResultText(<<"Droplet deleted successfully">>), NoError)

RECURSIVE parseSSHKeysFrom(_, _)
parseSSHKeysFrom(values, i) ==
    IF i > Len(values) THEN <<>>
    ELSE (CASE values[i].t = "number" ->
                    <<DropletCreateSSHKey(TruncInt(values[i].n), "")>>
            [] values[i].t = "string" /\ values[i].s # "" ->
                    <<DropletCreateSSHKey(0, values[i].s)>>
            [] OTHER -> <<>>)
         \o parseSSHKeysFrom(values, i + 1)

\* parseSSHKeys(args[key])
parseSSHKeys(args, key) ==
    IF ~IsA(args, key, "array") THEN <<>> ELSE parseSSHKeysFrom(args[key].a, 1)

RECURSIVE parseTagsFrom(_, _)
parseTagsFrom(values, i) ==
    IF i > Len(values) THEN <<>>
    ELSE (IF values[i].t = "string" /\ values[i].s # "" THEN <<values[i].s>> ELSE <<>>)
         \o parseTagsFrom(values, i + 1)

\* parseTags(args[key])
parseTags(args, key) ==
    IF ~IsA(args, key, "array") THEN <<>> ELSE parseTagsFrom(args[key].a, 1)

RECURSIVE NonEmptyStrings(_, _)
NonEmptyStrings(values, i) ==
    IF i > Len(values) THEN <<>>
    ELSE (IF values[i].s # "" THEN <<values[i].s>> ELSE <<>>)
         \o NonEmptyStrings(values, i + 1)

\* parseStringArray(raw): an error unless raw is an array of strings only.
parseStringArray(raw) ==
    IF raw.t # "array" THEN [ok |-> FALSE, v |-> <<>>]
    ELSE IF \E i \in 1..Len(raw.a) : raw.a[i].t # "string" THEN [ok |-> FALSE, v |-> <<>>]
    ELSE [ok |-> TRUE, v |-> NonEmptyStrings(raw.a, 1)]

\* The backup-policy documents an argument map of the model can carry.
WeeklyPolicyJSON == "{\"plan\":\"weekly\"}"

BrokenPolicyJSON == "{plan:"

\* Faulty variant: the error of json.Unmarshal is dropped.
UnmarshalBackupPolicy_Lenient(policyJSON) ==
    IF policyJSON = WeeklyPolicyJSON
    THEN [err |-> NoError, policy |-> "weekly"]
    ELSE [err |-> NoError, policy |-> "nil"]

\* json.Unmarshal([]byte(policyJSON), &policyReq) on those documents.
UnmarshalBackupPolicy(policyJSON) ==
    IF policyJSON = WeeklyPolicyJSON
    THEN [err |-> NoError, policy |-> "weekly"]
    ELSE [err |-> Error(<<"invalid character 'p' looking for beginning of object key string">>),
          policy |-> "nil"]

\* The optional fields shared by createDroplet and createMultipleDroplets.
CreateOptions(args, base) ==
    [base EXCEPT
        !.Backups = IsA(args, "Backup", "boolean") /\ args["Backup"].b,
        !.Monitoring = IsA(args, "Monitoring", "boolean") /\ args["Monitoring"].b,
        !.IPv6 = IsA(args, "IPv6", "boolean") /\ args["IPv6"].b,
        !.VPCUUID = IF IsA(args, "VPCUUID", "string") THEN args["VPCUUID"].s ELSE "",
        !.UserData = IF IsA(args, "UserData", "string") THEN args["UserData"].s ELSE "",
        !.WithDropletAgent =
            IF IsA(args, "WithDropletAgent", "boolean")
            THEN (IF args["WithDropletAgent"].b THEN "true" ELSE "false")
            ELSE "nil",
        !.SSHKeys = parseSSHKeys(args, "SSHKeys"),
        !.Tags = parseTags(args, "Tags")]

\* policyJSON, _ := args["BackupPolicy"].(string)
PolicyJSONOf(args) ==
    IF IsA(args, "BackupPolicy", "string") THEN args["BackupPolicy"].s ELSE ""

\* The extended createDroplet (Volumes, BackupPolicy, WithDropletAgent, ...).
createDropletCall(args) ==
    IF \/ ~IsA(args, "Name", "string") \/ ~IsA(args, "Size", "string")
       \/ ~IsA(args, "ImageID", "number") \/ ~IsA(args, "Region", "string")
    THEN LegacyPanic
    ELSE LET volumes == IF "Volumes" \in DOMAIN args /\ args["Volumes"].t # "nil"
                           /\ parseStringArray(args["Volumes"]).ok
                        THEN parseStringArray(args["Volumes"]).v ELSE <<>>
             policyJSON == PolicyJSONOf(args)
             parsed == UnmarshalBackupPolicy(policyJSON)
         IN IF policyJSON # "" /\ ~parsed.err.nil
            THEN LegacyFault(NewToolResultErrorFromErr("invalid backup policy json",
                                                       parsed.err))
            ELSE LegacyCalls(Request("Droplets.Create", 0, NoOptions,
                    [CreateOptions(args, ZeroCreateRequest) EXCEPT
                        !.Name = args["Name"].s,
                        !.Size = args["Size"].s,
                        !.Image = TruncInt(args["ImageID"].n),
                        !.Region = args["Region"].s,
                        !.Volumes = volumes,
                        !.BackupPolicy = IF policyJSON # "" THEN parsed.policy
                                         ELSE "nil"]))

\* The original createDroplet: its own loops over SSHKeys and Tags, which
\* assert the array type without a test and keep empty strings.
originalCreateDropletCall(args) ==
    IF \/ ~IsA(args, "Name", "string") \/ ~IsA(args, "Size", "string")
       \/ ~IsA(args, "ImageID", "number") \/ ~IsA(args, "Region", "string")
    THEN LegacyPanic
    ELSE LET given(key) == key \in DOMAIN args /\ args[key].t # "nil"
         IN IF \/ given("SSHKeys") /\ args["SSHKeys"].t # "array"
               \/ given("Tags") /\ args["Tags"].t # "array"
            THEN LegacyPanic
            ELSE LegacyCalls(Request("Droplets.Create", 0, NoOptions,
                    [ZeroCreateRequest EXCEPT
                        !.Name = args["Name"].s,
                        !.Size = args["Size"].s,
                        !.Image = TruncInt(args["ImageID"].n),
                        !.Region = args["Region"].s,
                        !.Backups = IsA(args, "Backup", "boolean") /\ args["Backup"].b,
                        !.Monitoring = IsA(args, "Monitoring", "boolean")
                                       /\ args["Monitoring"].b,
                        !.SSHKeys = IF given("SSHKeys") THEN SSHKeysOf(args["SSHKeys"].a, 1)
                                    ELSE <<>>,
                        !.Tags = IF given("Tags") THEN TagsOf(args["Tags"].a, 1)
                                 ELSE <<>>]))

\* A failed json.MarshalIndent is returned as a fault result "json marshal".
createDropletReturn(resp) ==
    IF ~resp.err.nil
    THEN Returned(NewToolResultErrorFromErr("droplet create", resp.err), NoError)
    ELSE LET jsonDroplet == MarshalIndent(DropletPointer(resp.val.one), 0)
         IN IF ~jsonDroplet.ok
            THEN Returned(NewToolResultErrorFromErr("json marshal", jsonDroplet.err), NoError)
            ELSE Returned(NewToolResultText(jsonDroplet.text), NoError)

createMultipleDropletsCall(args) ==
    IF "Names" \notin DOMAIN args
    THEN LegacyFault(NewToolResultError(<<"Names is required">>))
    ELSE IF ~parseStringArray(args["Names"]).ok \/ parseStringArray(args["Names"]).v = <<>>
    THEN LegacyFault(NewToolResultError(<<"Names must be a non-empty array of strings">>))
    ELSE IF ~IsA(args, "Size", "string") \/ args["Size"].s = ""
    THEN LegacyFault(NewToolResultError(<<"Size is required">>))
    ELSE IF ~IsA(args, "ImageID", "number")
    THEN LegacyFault(NewToolResultError(<<"ImageID is required">>))
    ELSE IF ~IsA(args, "Region", "string") \/ args["Region"].s = ""
    THEN LegacyFault(NewToolResultError(<<"Region is required">>))
    ELSE LET policyJSON == PolicyJSONOf(args)
             parsed == UnmarshalBackupPolicy(policyJSON)
         IN IF policyJSON # "" /\ ~parsed.err.nil
            THEN LegacyFault(NewToolResultErrorFromErr("invalid backup policy json",
                                                       parsed.err))
            ELSE LegacyCalls(Request("Droplets.CreateMultiple", 0, NoOptions,
                    [CreateOptions(args, ZeroCreateRequest) EXCEPT
                        !.Names = parseStringArray(args["Names"]).v,
                        !.Region = args["Region"].s,
                        !.Size = args["Size"].s,
                        !.Image = TruncInt(args["ImageID"].n),
                        !.BackupPolicy = IF policyJSON # "" THEN parsed.policy
                                         ELSE "nil"]))

createMultipleDropletsReturn(resp) ==
    IF ~resp.err.nil
    THEN Returned(NewToolResultErrorFromErr("api error", resp.err), NoError)
    ELSE LET jsonData == formatDropletSummaries(resp.val.many)
         IN IF ~jsonData.ok THEN Returned(NilResult, Wrap("marshal error", jsonData.err))
            ELSE Returned(NewToolResultText(jsonData.text), NoError)

defaultImagesPageSize == 50

defaultImagesPage == 1

\* Faulty variant: the case "user" is missing from the switch.
listImagesCall_NoUserCase(args) ==
    LET imageType == IF IsA(args, "Type", "string") THEN args["Type"].s ELSE ""
        opt == ListOptions(getNumberArg(args, "Page", defaultImagesPage),
                           getNumberArg(args, "PerPage", defaultImagesPageSize))
        method == CASE imageType = "distribution" -> "Images.ListDistribution"
                    [] imageType = "application"  -> "Images.ListApplication"
                    [] OTHER                      -> "Images.List"
    IN LegacyCalls(Request(method, 0, opt, ZeroCreateRequest))

\* ImageTool.listImages: the switch on imageType selects the upstream call.
listImagesCall(args) ==
    LET imageType == IF IsA(args, "Type", "string") THEN args["Type"].s ELSE ""
        opt == ListOptions(getNumberArg(args, "Page", defaultImagesPage),
                           getNumberArg(args, "PerPage", defaultImagesPageSize))
        method == CASE imageType = "distribution" -> "Images.ListDistribution"
                    [] imageType = "application"  -> "Images.ListApplication"
                    [] imageType = "user"         -> "Images.ListUser"
                    [] OTHER                      -> "Images.List"
    IN LegacyCalls(Request(method, 0, opt, ZeroCreateRequest))

RECURSIVE FilteredImages(_, _)
FilteredImages(images, i) ==
    IF i > Len(images) THEN <<>>
    ELSE <<JObject(<<"id", "name">>, <<JInt(images[i].ID), JString(images[i].Name)>>)>>
         \o FilteredImages(images, i + 1)

listImagesReturn(resp) ==
    LegacyJSON("api error", resp, JArray(FilteredImages(resp.val.images, 1)))

\* The legacy handlers by method name; a primed name is the version of the
\* method that asserts its ID without a test.
LegacyTools ==
    {"enablePrivateNetworking", "getDropletKernels", "getDropletByID", "getDroplets",
     "deleteDroplet", "createDroplet", "createMultipleDroplets", "listImages",
     "getDropletNeighbors", "getDropletBackupPolicy", "getDropletActionByID",
     "listDropletSnapshots", "listDropletBackups", "listDropletActions",
     "listDropletSnapshots'", "listDropletBackups'", "listDropletActions'"}

\* The legacy handler, up to d.client(ctx).
LegacyCallOf(name, args) ==
    CASE name = "enablePrivateNetworking" -> enablePrivateNetworkingCall(args)
      [] name = "getDropletKernels"       -> getDropletKernelsCall(args)
      [] name = "getDropletByID"          -> getDropletByIDCall(args)
      [] name = "getDroplets"             -> getDropletsCall(args)
      [] name = "deleteDroplet"           -> deleteDropletCall(args)
      [] name = "createDroplet"           -> createDropletCall(args)
      [] name = "createMultipleDroplets"  -> createMultipleDropletsCall(args)
      [] name = "listImages"              -> listImagesCall(args)
      [] name = "getDropletNeighbors"     -> getDropletNeighborsCall(args)
      [] name = "getDropletBackupPolicy"  -> getDropletBackupPolicyCall(args)
      [] name = "getDropletActionByID"    -> getDropletActionByIDCall(args)
      [] name = "listDropletSnapshots"    -> listDropletCall("Droplets.Snapshots", args)
      [] name = "listDropletBackups"      -> listDropletCall("Droplets.Backups", args)
      [] name = "listDropletActions"      -> listDropletCall("Droplets.Actions", args)
      [] name = "listDropletSnapshots'"   ->
            listDropletAssertingCall("Droplets.Snapshots", args)
      [] name = "listDropletBackups'"     ->
            listDropletAssertingCall("Droplets.Backups", args)
      [] name = "listDropletActions'"     ->
            listDropletAssertingCall("Droplets.Actions", args)

\* The legacy handler, after its upstream call returned.
LegacyReturnOf(name, resp) ==
    CASE name = "enablePrivateNetworking" -> enablePrivateNetworkingReturn(resp)
      [] name = "getDropletKernels"       -> getDropletKernelsReturn(resp)
      [] name = "getDropletByID"          -> getDropletByIDReturn(resp)
      [] name = "getDroplets"             -> getDropletsReturn(resp)
      [] name = "deleteDroplet"           -> deleteDropletReturn(resp)
      [] name = "createDroplet"           -> createDropletReturn(resp)
      [] name = "createMultipleDroplets"  -> createMultipleDropletsReturn(resp)
      [] name = "listImages"              -> listImagesReturn(resp)
      [] name = "getDropletNeighbors"     ->
            LegacyJSON("api error", resp, JArray(DropletSlice(resp.val.many, 1)))
      [] name = "getDropletActionByID"    ->
            LegacyJSON("api error", resp, ActionPointer(resp.val.action))
      [] OTHER -> \* getDropletBackupPolicy and the listDroplet... handlers
            LegacyJSON("api error", resp, resp.val.other)

\* ------------------------------------------------------------------------
\* Inputs: the argument maps a caller sends, the answers of the upstream stub
\* ------------------------------------------------------------------------

EmptyMap == [k \in {} |-> Nil]

RECURSIVE MapsOver(_)
\* Every map that holds, for each <<key, values>> of choices, either no such
\* key or the key with one of the values.
MapsOver(choices) ==
    IF choices = <<>> THEN {EmptyMap}
    ELSE LET key  == Head(choices)[1]
             vals == Head(choices)[2]
             rest == MapsOver(Tail(choices))
         IN rest \cup {(key :> v) @@ m : v \in vals, m \in rest}

IDChoices == {Num(0), Num(Scale \div 2), Num(456 * Scale), Str("456"), Nil}

\* The argument maps tried for each tool: right and wrong dynamic types, nil
\* values, zero and fractional numbers, undeclared keys.
ArgChoices(name) ==
    CASE name = "droplet-list" ->
            << <<"Page", {Num(0), Num(2 * Scale), Str("2")}>>,
               <<"PerPage", {Num(25 * Scale), Nil}>>,
               <<"Extra", {Str("x")}>> >>
      [] name \in {"droplet-get", "droplet-delete", "droplet-neighbors"} ->
            << <<"ID", IDChoices>>, <<"Extra", {Str("x")}>> >>
      [] name = "droplet-create" ->
            << <<"Name", {Str("test"), Num(7 * Scale)}>>,
               <<"Size", {Str("s-1vcpu-1gb"), Bool(TRUE)}>>,
               <<"ImageID", {Num(456 * Scale), Str("456")}>>,
               <<"Region", {Str("nyc1"), Nil}>>,
               <<"Backup", {Bool(TRUE), Str("yes")}>>,
               <<"Monitoring", {Bool(TRUE)}>>,
               <<"SSHKeys", {Arr(<<Num(Scale + Scale \div 2), Str("fp"), Bool(TRUE),
                                    Str("")>>)}>>,
               <<"Tags", {Arr(<<Str("a"), Num(Scale)>>)}>> >>
      [] name \in {"enablePrivateNetworking", "getDropletKernels", "getDropletByID",
                   "deleteDroplet", "getDropletNeighbors"} ->
            << <<"ID", {Num(456 * Scale), Str("456")}>> >>
      [] name = "getDropletBackupPolicy" ->
            << <<"ID", {Num(456 * Scale), Str("456"), Nil}>> >>
      [] name = "getDropletActionByID" ->
            << <<"DropletID", {Num(456 * Scale), Str("456")}>>,
               <<"ActionID", {Num(7 * Scale), Nil}>> >>
      [] name \in {"listDropletSnapshots", "listDropletBackups", "listDropletActions",
                   "listDropletSnapshots'", "listDropletBackups'",
                   "listDropletActions'"} ->
            << <<"ID", {Num(456 * Scale), Str("456")}>>,
               <<"Page", {Num(2 * Scale)}>> >>
      [] name = "getDroplets" ->
            << <<"Page", {Num(0), Num(2 * Scale), Str("2")}>>,
               <<"PerPage", {Num(25 * Scale), Num(25 * Scale + Scale \div 2)}>> >>
      [] name = "createDroplet" ->
            << <<"Name", {Str("test")}>>,
               <<"Size", {Str("s-1vcpu-1gb")}>>,
               <<"ImageID", {Num(456 * Scale), Str("456")}>>,
               <<"Region", {Str("nyc1")}>>,
               <<"Backup", {Bool(TRUE)}>>,
               <<"IPv6", {Bool(TRUE)}>>,
               <<"WithDropletAgent", {Bool(FALSE)}>>,
               <<"BackupPolicy", {Str(WeeklyPolicyJSON), Str(BrokenPolicyJSON), Str("")}>>,
               <<"SSHKeys", {Arr(<<Num(Scale), Str(""), Str("fp")>>),
                             Arr(<<Num(Scale), Str("fp")>>)}>>,
               <<"Volumes", {Arr(<<Str("vol-1"), Str("")>>), Arr(<<Num(Scale)>>)}>> >>
      [] name = "createMultipleDroplets" ->
            << <<"Names", {Arr(<<Str("a"), Str("b")>>), Arr(<<>>), Str("a")}>>,
               <<"Size", {Str("s-1vcpu-1gb"), Str("")}>>,
               <<"ImageID", {Num(456 * Scale)}>>,
               <<"Region", {Str("nyc1")}>>,
               <<"BackupPolicy", {Str(WeeklyPolicyJSON), Str(BrokenPolicyJSON)}>>,
               <<"SSHKeys", {Arr(<<Str("fp"), Nil, Num(2 * Scale)>>)}>>,
               <<"Tags", {Arr(<<Str("a"), Str("")>>)}>> >>
      [] name = "listImages" ->
            << <<"Type", {Str("distribution"), Str("application"), Str("user"),
                          Str("backup"), Num(Scale)}>>,
               <<"Page", {Num(2 * Scale)}>>,
               <<"PerPage", {Num(25 * Scale)}>> >>

\* A *godo.Action and a godo.Image.
NilAction == [nil |-> TRUE, ID |-> 0, Status |-> ""]

Action(id, status) == [nil |-> FALSE, ID |-> id, Status |-> status]

Image(id, name) == [ID |-> id, Name |-> name]

\* A []godo.Kernel as encoding/json sees it.
KernelSlice == JArray(<<JObject(<<"id", "name">>, <<JInt(1), JString("generic")>>)>>)

\* The value part of an upstream answer; each method fills its own field
\* (other: a value the handler hands to json.MarshalIndent untouched).
NoValue ==
    [one |-> NilDroplet, many |-> <<>>, action |-> NilAction, images |-> <<>>,
     other |-> JNull]

TestDroplet == Droplet(123, "test", JFloat(5))

\* A droplet whose Size carries a float64 that encoding/json cannot write.
NaNDroplet == Droplet(124, "odd", JNaN)

\* The literal error texts the upstream client reports.
UpstreamErrors == {"not found", "server error"}

\* What the upstream stub may answer to a call of the method.
ResponsesOf(method) ==
    {Response(NoValue, Error(<<e>>)) : e \in UpstreamErrors}
    \cup
    (CASE method \in {"Droplets.Get", "Droplets.Create"} ->
            {Response([NoValue EXCEPT !.one = d], NoError) :
                d \in {TestDroplet, NaNDroplet, NilDroplet}}
       [] method \in {"Droplets.List", "Droplets.Neighbors", "Droplets.CreateMultiple"} ->
            {Response([NoValue EXCEPT !.many = ds], NoError) :
                ds \in {<<>>, <<TestDroplet>>, <<TestDroplet, NaNDroplet>>}}
       [] method \in {"Droplets.Snapshots", "Droplets.Backups", "Droplets.Actions"} ->
            {Response([NoValue EXCEPT !.other = v], NoError) :
                v \in {JArray(<<>>), JArray(<<JObject(<<"id">>, <<JInt(789)>>)>>)}}
       [] method = "Droplets.GetBackupPolicy" ->
            {Response([NoValue EXCEPT !.other = v], NoError) :
                v \in {JNull, JObject(<<"droplet_id">>, <<JInt(456)>>)}}
       [] method \in {"DropletActions.EnablePrivateNetworking", "DropletActions.Get"} ->
            {Response([NoValue EXCEPT !.action = Action(1, "in-progress")], NoError)}
       [] method = "Droplets.Kernels" ->
            {Response([NoValue EXCEPT !.other = v], NoError) :
                v \in {JArray(<<>>), KernelSlice}}
       [] method \in {"Images.List", "Images.ListDistribution",
                      "Images.ListApplication", "Images.ListUser"} ->
            {Response([NoValue EXCEPT !.images = is], NoError) :
                is \in {<<>>, <<Image(7, "ubuntu")>>}}
       [] OTHER -> {Response(NoValue, NoError)})

NoResponse == Response(NoValue, NoError)

\* ------------------------------------------------------------------------
\* State
\* ------------------------------------------------------------------------

VARIABLES
    tool,           \* the tool of the invocation in progress ("none" when idle)
    args,           \* its argument map, req.GetArguments()
    pc,             \* where the invocation stands
    ninv,           \* invocations completed so far
    factoryCalls,   \* calls of the client factory by this invocation
    handlerCalls,   \* calls of config.Handler by this invocation
    upstreamCalls,  \* calls recorded by the upstream stub for this invocation
    clientErr,      \* the error the client factory returned
    upReq,          \* the request of the upstream call
    upResp,         \* the answer of the upstream call
    answered,       \* the upstream call has returned
    hret,           \* what config.Handler returned
    result,         \* the *mcp.CallToolResult returned
    goErr,          \* the Go error returned
    panicked,       \* the handler panicked
    cfgArguments,   \* SpecConfig: tc.Arguments of the descriptor under test
    cfgArgs,        \* SpecConfig: the argument map under test
    cfgErr,         \* SpecConfig: what ValidateArguments returned
    cfgPc,          \* SpecConfig: "start", "validated" or "built"
    cfgTool,        \* SpecConfig: what BuildMCPTool returned
    repeat,         \* SpecRepeat: the request sent again and again, and what
                    \* the invocation before this one saw and returned
    conc,           \* SpecConcurrent: the invocations running side by side,
                    \* each with the locals of its own call of the entry point
    ctxErr,         \* ctx.Err() of the caller's context: nil until cancelled
    configs         \* the package-level descriptors (*ToolConfig), by tool name

invVars == <<tool, args, pc, ninv, factoryCalls, handlerCalls, upstreamCalls,
             clientErr, upReq, upResp, answered, hret, result, goErr, panicked>>

cfgVars == <<cfgArguments, cfgArgs, cfgErr, cfgPc, cfgTool>>

\* What lies beside the locals of an invocation; no step of a handler writes
\* it (ctx is only handed on to the client factory and the upstream client,
\* the descriptors are only read).
sideVars == <<repeat, conc, ctxErr, configs>>

vars == <<invVars, cfgVars, sideVars>>

Tools == GenericTools \cup LegacyTools

\* No invocation in progress.
Idle ==
    /\ tool = "none"
    /\ args = EmptyMap
    /\ pc = "idle"
    /\ factoryCalls = 0
    /\ handlerCalls = 0
    /\ upstreamCalls = 0
    /\ clientErr = NoError
    /\ upReq = NoRequest
    /\ upResp = NoResponse
    /\ answered = FALSE
    /\ hret = HandlerResult(JNull, NoError)
    /\ result = NilResult
    /\ goErr = NoError
    /\ panicked = FALSE

\* No mcp.Tool built yet.
NoTool ==
    [Name |-> "", Description |-> "",
     InputSchema |-> [Type |-> "", Properties |-> EmptyMap, Required |-> <<>>]]

CfgIdle ==
    /\ cfgArguments = <<>>
    /\ cfgArgs = EmptyMap
    /\ cfgErr = NoError
    /\ cfgPc = "off"
    /\ cfgTool = NoTool

\* No request is being repeated.
NoRepeat ==
    [on |-> FALSE, tool |-> "none", args |-> EmptyMap, seen |-> FALSE,
     answered |-> FALSE, resp |-> NoResponse, result |-> NilResult, goErr |-> NoError]

\* No invocations running side by side.
NoConcurrent == <<>>

\* The descriptors as their declarations initialise them.
Declared == [name \in GenericTools |-> ConfigOf(name)]

Init ==
    /\ Idle /\ ninv = 0 /\ CfgIdle /\ repeat = NoRepeat /\ conc = NoConcurrent
    /\ ctxErr = NoError
    /\ configs = Declared

\* ------------------------------------------------------------------------
\* Spec: invocations of the registered tools, one after the other
\* ------------------------------------------------------------------------

\* The server runtime calls the entry point of a tool with a request.
Invoke ==
    /\ pc = "idle"
    /\ ninv < MaxInvocations
    /\ \E name \in Tools : \E a \in MapsOver(ArgChoices(name)) :
          /\ tool' = name
          /\ args' = a
    /\ pc' = "entered"
    /\ UNCHANGED <<ninv, factoryCalls, handlerCalls, upstreamCalls, clientErr, upReq,
                   upResp, answered, hret, result, goErr, panicked>>
    /\ UNCHANGED <<cfgVars, sideVars>>

\* Faulty variant: the client is obtained before the arguments are validated.
GenericValidate_ClientFirst ==
    /\ pc = "entered"
    /\ tool \in GenericTools
    /\ factoryCalls' = factoryCalls + 1
    /\ LET err == ValidateArguments(ConfigOf(tool).Arguments, args)
       IN IF ~err.nil
          THEN /\ result' = NewToolResultError(err.msg)
               /\ pc' = "done"
          ELSE /\ result' = result
               /\ pc' = "client"
    /\ UNCHANGED <<tool, args, ninv, handlerCalls, upstreamCalls, clientErr, upReq,
                   upResp, answered, hret, goErr, panicked>>
    /\ UNCHANGED <<cfgVars, sideVars>>

\* The defaults a descriptor declares for the keys the map does not hold.
DefaultsFor(arguments, a) ==
    LET absent == {i \in 1..Len(arguments) :
                      arguments[i].Name \notin DOMAIN a /\ arguments[i].DefaultValue # Nil}
    IN [k \in {arguments[i].Name : i \in absent} |->
           (CHOOSE i \in absent : arguments[i].Name = k)]

\* Faulty variant: validation fills the declared defaults into the caller's
\* map.
GenericValidate_WritesDefaults ==
    /\ pc = "entered"
    /\ tool \in GenericTools
    /\ LET err == ValidateArguments(configs[tool].Arguments, args)
           d   == DefaultsFor(configs[tool].Arguments, args)
       IN /\ IF ~err.nil
             THEN /\ result' = NewToolResultError(err.msg)
                  /\ pc' = "done"
             ELSE /\ result' = result
                  /\ pc' = "factory"
          /\ args' = [k \in DOMAIN d |-> configs[tool].Arguments[d[k]].DefaultValue] @@ args
    /\ UNCHANGED <<tool, ninv, factoryCalls, handlerCalls, upstreamCalls,
                   clientErr, upReq, upResp, answered, hret, goErr, panicked>>
    /\ UNCHANGED <<cfgVars, sideVars>>

\* GenericToolHandler, lines 18-21: validate, and return a fault result when
\* validation fails.
GenericValidate ==
    /\ pc = "entered"
    /\ tool \in GenericTools
    /\ LET err == ValidateArguments(configs[tool].Arguments, args)
       IN IF ~err.nil
          THEN /\ result' = NewToolResultError(err.msg)
               /\ pc' = "done"
          ELSE /\ result' = result
               /\ pc' = "factory"
    /\ UNCHANGED <<tool, args, ninv, factoryCalls, handlerCalls, upstreamCalls,
                   clientErr, upReq, upResp, answered, hret, goErr, panicked>>
    /\ UNCHANGED <<cfgVars, sideVars>>

\* A legacy handler from its entry to d.client(ctx): type assertions, argument
\* checks and the request it builds.
LegacyEnter ==
    /\ pc = "entered"
    /\ tool \in LegacyTools
    /\ LET c == LegacyCallOf(tool, args)
       IN CASE c.outcome = "panic" ->
                  /\ panicked' = TRUE
                  /\ pc' = "done"
                  /\ UNCHANGED <<result, upReq>>
            [] c.outcome = "fault" ->
                  /\ result' = c.result
                  /\ pc' = "done"
                  /\ UNCHANGED <<panicked, upReq>>
            [] c.outcome = "call" ->
                  /\ upReq' = c.req
                  /\ pc' = "factory"
                  /\ UNCHANGED <<panicked, result>>
    /\ UNCHANGED <<tool, args, ninv, factoryCalls, handlerCalls, upstreamCalls,
                   clientErr, upResp, answered, hret, goErr>>
    /\ UNCHANGED <<cfgVars, sideVars>>

\* The message of the error a failing client factory returns.
FactoryError == Error(<<"no credentials">>)

\* Faulty variant: the factory's error is not checked.
GetClient_IgnoreError ==
    /\ pc = "factory"
    /\ factoryCalls' = factoryCalls + 1
    /\ \E ok \in BOOLEAN :
          clientErr' = IF ok THEN NoError ELSE FactoryError
    /\ pc' = "client"
    /\ UNCHANGED <<tool, args, ninv, handlerCalls, upstreamCalls, upReq, upResp,
                   answered, hret, result, goErr, panicked>>
    /\ UNCHANGED <<cfgVars, sideVars>>

\* client, err := clientFactory(ctx): the factory is supplied from outside and
\* may fail; its failure is returned as a Go error.
GetClient ==
    /\ pc = "factory"
    /\ factoryCalls' = factoryCalls + 1
    /\ \E ok \in BOOLEAN :
          IF ok
          THEN /\ clientErr' = NoError
               /\ pc' = "client"
               /\ UNCHANGED <<result, goErr>>
          ELSE /\ clientErr' = FactoryError
               /\ result' = NilResult
               /\ goErr' = Wrap("failed to get DigitalOcean client", FactoryError)
               /\ pc' = "done"
    /\ UNCHANGED <<tool, args, ninv, handlerCalls, upstreamCalls, upReq, upResp,
                   answered, hret, panicked>>
    /\ UNCHANGED <<cfgVars, sideVars>>

\* Faulty variant: the answer to an earlier invocation with the same arguments
\* is kept and served again, without a new upstream call.
GenericHandlerCall_Cached ==
    /\ pc = "client"
    /\ tool \in GenericTools
    /\ handlerCalls' = handlerCalls + 1
    /\ LET c == HandlerCallOf(tool, args)
       IN IF c.early
          THEN /\ hret' = HandlerResult(c.val, c.err)
               /\ pc' = "respond"
               /\ UNCHANGED <<upReq, upstreamCalls>>
          ELSE IF repeat.seen /\ repeat.answered
          THEN /\ hret' = HandlerReturnOf(tool, repeat.resp)
               /\ pc' = "respond"
               /\ UNCHANGED <<upReq, upstreamCalls>>
          ELSE /\ upReq' = c.req
               /\ upstreamCalls' = upstreamCalls + 1
               /\ pc' = "upstream"
               /\ UNCHANGED hret
    /\ UNCHANGED <<tool, args, ninv, factoryCalls, clientErr, upResp, answered,
                   result, goErr, panicked>>
    /\ UNCHANGED <<cfgVars, sideVars>>

\* config.Handler(ctx, client, args) runs up to its upstream call, or returns
\* early without one.
GenericHandlerCall ==
    /\ pc = "client"
    /\ tool \in GenericTools
    /\ handlerCalls' = handlerCalls + 1
    /\ LET c == HandlerCallOf(tool, args)
       IN IF c.early
          THEN /\ hret' = HandlerResult(c.val, c.err)
               /\ pc' = "respond"
               /\ UNCHANGED <<upReq, upstreamCalls>>
          ELSE /\ upReq' = c.req
               /\ upstreamCalls' = upstreamCalls + 1
               /\ pc' = "upstream"
               /\ UNCHANGED hret
    /\ UNCHANGED <<tool, args, ninv, factoryCalls, clientErr, upResp, answered,
                   result, goErr, panicked>>
    /\ UNCHANGED <<cfgVars, sideVars>>

\* A legacy handler issues the upstream call it prepared.
LegacyUpstreamCall ==
    /\ pc = "client"
    /\ tool \in LegacyTools
    /\ upstreamCalls' = upstreamCalls + 1
    /\ pc' = "upstream"
    /\ UNCHANGED <<tool, args, ninv, factoryCalls, handlerCalls, clientErr, upReq,
                   upResp, answered, hret, result, goErr, panicked>>
    /\ UNCHANGED <<cfgVars, sideVars>>

\* context.Canceled
Canceled == Error(<<"context canceled">>)

\* The caller cancels the context of the invocation in progress.
CancelContext ==
    /\ pc \in {"entered", "factory", "client", "upstream"}
    /\ ctxErr.nil
    /\ ctxErr' = Canceled
    /\ UNCHANGED <<invVars, cfgVars, repeat, conc, configs>>

\* The upstream client answers the call: a value or an error; when the
\* context is cancelled it may honor that and return ctx.Err().
UpstreamAnswer ==
    /\ pc = "upstream"
    /\ \E resp \in ResponsesOf(upReq.method)
                    \cup (IF ctxErr.nil THEN {} ELSE {Response(NoValue, ctxErr)}) :
          upResp' = resp
    /\ answered' = TRUE
    /\ pc' = "answered"
    /\ UNCHANGED <<tool, args, ninv, factoryCalls, handlerCalls, upstreamCalls,
                   clientErr, upReq, hret, result, goErr, panicked>>
    /\ UNCHANGED <<cfgVars, sideVars>>

\* Faulty variant: the handler calls again after an upstream error.
GenericHandlerReturn_Retry ==
    /\ pc = "answered"
    /\ tool \in GenericTools
    /\ IF ~upResp.err.nil /\ upstreamCalls < 2
       THEN /\ upstreamCalls' = upstreamCalls + 1
            /\ pc' = "upstream"
            /\ UNCHANGED hret
       ELSE /\ hret' = HandlerReturnOf(tool, upResp)
            /\ pc' = "respond"
            /\ UNCHANGED upstreamCalls
    /\ UNCHANGED <<tool, args, ninv, factoryCalls, handlerCalls, clientErr, upReq,
                   upResp, answered, result, goErr, panicked>>
    /\ UNCHANGED <<cfgVars, sideVars>>

\* config.Handler goes on after the upstream call and returns.
GenericHandlerReturn ==
    /\ pc = "answered"
    /\ tool \in GenericTools
    /\ hret' = HandlerReturnOf(tool, upResp)
    /\ pc' = "respond"
    /\ UNCHANGED <<tool, args, ninv, factoryCalls, handlerCalls, upstreamCalls,
                   clientErr, upReq, upResp, answered, result, goErr, panicked>>
    /\ UNCHANGED <<cfgVars, sideVars>>

\* GenericToolHandler turns what the handler returned into its own return.
GenericRespondStep ==
    /\ pc = "respond"
    /\ LET r == GenericRespond(hret)
       IN /\ result' = r.result
          /\ goErr' = r.err
    /\ pc' = "done"
    /\ UNCHANGED <<tool, args, ninv, factoryCalls, handlerCalls, upstreamCalls,
                   clientErr, upReq, upResp, answered, hret, panicked>>
    /\ UNCHANGED <<cfgVars, sideVars>>

\* A legacy handler goes on after the upstream call and returns.
LegacyReturn ==
    /\ pc = "answered"
    /\ tool \in LegacyTools
    /\ LET r == LegacyReturnOf(tool, upResp)
       IN /\ result' = r.result
          /\ goErr' = r.err
    /\ pc' = "done"
    /\ UNCHANGED <<tool, args, ninv, factoryCalls, handlerCalls, upstreamCalls,
                   clientErr, upReq, upResp, answered, hret, panicked>>
    /\ UNCHANGED <<cfgVars, sideVars>>

\* The invocation is over; nothing of it is kept.
Finish ==
    /\ pc = "done"
    /\ tool' = "none"
    /\ args' = EmptyMap
    /\ pc' = "idle"
    /\ factoryCalls' = 0
    /\ handlerCalls' = 0
    /\ upstreamCalls' = 0
    /\ clientErr' = NoError
    /\ upReq' = NoRequest
    /\ upResp' = NoResponse
    /\ answered' = FALSE
    /\ hret' = HandlerResult(JNull, NoError)
    /\ result' = NilResult
    /\ goErr' = NoError
    /\ panicked' = FALSE
    /\ ninv' = ninv + 1
    /\ repeat' = IF repeat.on
                 THEN [repeat EXCEPT !.seen = TRUE, !.answered = answered,
                                     !.resp = upResp, !.result = result,
                                     !.goErr = goErr]
                 ELSE repeat
    /\ ctxErr' = NoError
    /\ UNCHANGED <<cfgVars, conc, configs>>

Next ==
    \/ Invoke
    \/ CancelContext
    \/ GenericValidate
    \/ LegacyEnter
    \/ GetClient
    \/ GenericHandlerCall
    \/ LegacyUpstreamCall
    \/ UpstreamAnswer
    \/ GenericHandlerReturn
    \/ GenericRespondStep
    \/ LegacyReturn
    \/ Finish

Spec == Init /\ [][Next]_vars

\* ------------------------------------------------------------------------
\* SpecRepeat: the same request, sent to the same tool again and again
\* ------------------------------------------------------------------------

InitRepeat ==
    /\ Idle
    /\ ninv = 0
    /\ CfgIdle
    /\ \E name \in Tools : \E a \in MapsOver(ArgChoices(name)) :
          repeat = [NoRepeat EXCEPT !.on = TRUE, !.tool = name, !.args = a]
    /\ conc = NoConcurrent
    /\ ctxErr = NoError
    /\ configs = Declared

\* The server runtime calls the entry point once more, with the same request.
InvokeAgain ==
    /\ pc = "idle"
    /\ ninv < MaxInvocations
    /\ repeat.on
    /\ tool' = repeat.tool
    /\ args' = repeat.args
    /\ pc' = "entered"
    /\ UNCHANGED <<ninv, factoryCalls, handlerCalls, upstreamCalls, clientErr, upReq,
                   upResp, answered, hret, result, goErr, panicked>>
    /\ UNCHANGED <<cfgVars, sideVars>>

NextRepeat ==
    \/ InvokeAgain
    \/ GenericValidate
    \/ LegacyEnter
    \/ GetClient
    \/ GenericHandlerCall
    \/ LegacyUpstreamCall
    \/ UpstreamAnswer
    \/ GenericHandlerReturn
    \/ GenericRespondStep
    \/ LegacyReturn
    \/ Finish

SpecRepeat == InitRepeat /\ [][NextRepeat]_vars

\* ------------------------------------------------------------------------
\* SpecConcurrent: two invocations of GenericToolHandler entry points whose
\* steps interleave. Each call of the closure has its own args, client, err,
\* result and jsonData; conc[p] holds those of invocation p.
\* ------------------------------------------------------------------------

Invocations == {1, 2}

\* The requests the two callers send.
ConcurrentRequests ==
    {<<"droplet-get", EmptyMap>>,
     <<"droplet-get", [k \in {"ID"} |-> Num(456 * Scale)]>>,
     <<"droplet-get", [k \in {"ID"} |-> Num(0)]>>,
     <<"droplet-delete", [k \in {"ID"} |-> Num(456 * Scale)]>>,
     <<"droplet-list", [k \in {"PerPage"} |-> Num(25 * Scale)]>>,
     <<"droplet-create",
       [k \in {"Name", "Size", "ImageID", "Region"} |->
           CASE k = "Name"    -> Str("test")
             [] k = "Size"    -> Str("s-1vcpu-1gb")
             [] k = "ImageID" -> Num(456 * Scale)
             [] k = "Region"  -> Str("nyc1")]>>}

\* The locals of a call of the entry point that has just begun.
Entered(name, a) ==
    [tool |-> name, args |-> a, pc |-> "entered", factoryCalls |-> 0,
     upstreamCalls |-> 0, clientErr |-> NoError, upReq |-> NoRequest,
     upResp |-> NoResponse, hret |-> HandlerResult(JNull, NoError),
     result |-> NilResult, goErr |-> NoError]

InitConcurrent ==
    /\ Idle
    /\ ninv = 0
    /\ CfgIdle
    /\ repeat = NoRepeat
    /\ conc \in [Invocations -> {Entered(r[1], r[2]) : r \in ConcurrentRequests}]
    /\ ctxErr = NoError
    /\ configs = Declared

\* Invocation p validates its arguments (lines 18-21).
ConcurrentValidate(p) ==
    /\ conc[p].pc = "entered"
    /\ LET err == ValidateArguments(configs[conc[p].tool].Arguments, conc[p].args)
       IN conc' = [conc EXCEPT ![p] =
                     IF ~err.nil
                     THEN [@ EXCEPT !.result = NewToolResultError(err.msg), !.pc = "done"]
                     ELSE [@ EXCEPT !.pc = "factory"]]
    /\ UNCHANGED <<invVars, cfgVars, repeat, ctxErr, configs>>

\* Invocation p calls the client factory (lines 23-27).
ConcurrentGetClient(p) ==
    /\ conc[p].pc = "factory"
    /\ \E ok \in BOOLEAN :
          conc' = [conc EXCEPT ![p] =
                     IF ok
                     THEN [@ EXCEPT !.factoryCalls = @ + 1, !.pc = "client"]
                     ELSE [@ EXCEPT !.factoryCalls = @ + 1,
                                    !.clientErr = FactoryError,
                                    !.goErr = Wrap("failed to get DigitalOcean client",
                                                   FactoryError),
                                    !.pc = "done"]]
    /\ UNCHANGED <<invVars, cfgVars, repeat, ctxErr, configs>>

\* The handler of invocation p runs up to its upstream call, or returns early.
ConcurrentHandlerCall(p) ==
    /\ conc[p].pc = "client"
    /\ LET c == HandlerCallOf(conc[p].tool, conc[p].args)
       IN conc' = [conc EXCEPT ![p] =
                     IF c.early
                     THEN [@ EXCEPT !.hret = HandlerResult(c.val, c.err),
                                    !.pc = "respond"]
                     ELSE [@ EXCEPT !.upReq = c.req, !.upstreamCalls = @ + 1,
                                    !.pc = "upstream"]]
    /\ UNCHANGED <<invVars, cfgVars, repeat, ctxErr, configs>>

\* The upstream client answers the call of invocation p.
ConcurrentUpstreamAnswer(p) ==
    /\ conc[p].pc = "upstream"
    /\ \E resp \in ResponsesOf(conc[p].upReq.method) :
          conc' = [conc EXCEPT ![p] = [@ EXCEPT !.upResp = resp, !.pc = "answered"]]
    /\ UNCHANGED <<invVars, cfgVars, repeat, ctxErr, configs>>

\* Faulty variant: the answer is kept in a field all invocations share, and
\* the handler goes on with the answer that arrived last.
ConcurrentHandlerReturn_SharedAnswer(p) ==
    /\ conc[p].pc = "answered"
    /\ LET others == {q \in Invocations : q # p /\ conc[q].pc = "answered"}
           resp   == IF others = {} THEN conc[p].upResp
                     ELSE conc[CHOOSE q \in others : TRUE].upResp
       IN conc' = [conc EXCEPT ![p] =
                     [@ EXCEPT !.hret = HandlerReturnOf(conc[p].tool, resp),
                               !.pc = "respond"]]
    /\ UNCHANGED <<invVars, cfgVars, repeat, ctxErr, configs>>

\* The handler of invocation p goes on after its upstream call and returns.
ConcurrentHandlerReturn(p) ==
    /\ conc[p].pc = "answered"
    /\ conc' = [conc EXCEPT ![p] =
                  [@ EXCEPT !.hret = HandlerReturnOf(conc[p].tool, conc[p].upResp),
                            !.pc = "respond"]]
    /\ UNCHANGED <<invVars, cfgVars, repeat, ctxErr, configs>>

\* Invocation p turns what its handler returned into its own return.
ConcurrentRespond(p) ==
    /\ conc[p].pc = "respond"
    /\ LET r == GenericRespond(conc[p].hret)
       IN conc' = [conc EXCEPT ![p] =
                     [@ EXCEPT !.result = r.result, !.goErr = r.err, !.pc = "done"]]
    /\ UNCHANGED <<invVars, cfgVars, repeat, ctxErr, configs>>

NextConcurrent ==
    \E p \in Invocations :
        \/ ConcurrentValidate(p)
        \/ ConcurrentGetClient(p)
        \/ ConcurrentHandlerCall(p)
        \/ ConcurrentUpstreamAnswer(p)
        \/ ConcurrentHandlerReturn(p)
        \/ ConcurrentRespond(p)

SpecConcurrent == InitConcurrent /\ [][NextConcurrent]_vars

\* ------------------------------------------------------------------------
\* SpecConfig: ToolConfig.ValidateArguments on arbitrary descriptors
\* ------------------------------------------------------------------------

\* ArgumentConfig entries a descriptor is built from (those of the registered
\* configurations).
ArgPool ==
    {dropletGetConfig.Arguments[1], dropletCreateConfig.Arguments[1],
     dropletCreateConfig.Arguments[4], dropletListConfig.Arguments[1],
     dropletCreateConfig.Arguments[8]}

\* The descriptors of up to MaxArgs entries, and the registered ones.
Descriptors ==
    UNION {[1..n -> ArgPool] : n \in 0..MaxArgs}
    \cup {ConfigOf(name).Arguments : name \in GenericTools}

ConfigArgMaps ==
    MapsOver(<< <<"ID", {Nil, Num(456 * Scale), Str("456")}>>,
                <<"Name", {Nil, Str("test")}>>,
                <<"Region", {Str("nyc1")}>>,
                <<"Extra", {Str("x")}>> >>)

InitConfig ==
    /\ Idle
    /\ ninv = 0
    /\ cfgArguments \in Descriptors
    /\ cfgArgs \in ConfigArgMaps
    /\ cfgErr = NoError
    /\ cfgPc = "start"
    /\ cfgTool = NoTool
    /\ repeat = NoRepeat
    /\ conc = NoConcurrent
    /\ ctxErr = NoError
    /\ configs = Declared

\* tc.ValidateArguments(args)
ConfigValidate ==
    /\ cfgPc = "start"
    /\ cfgErr' = ValidateArguments(cfgArguments, cfgArgs)
    /\ cfgPc' = "validated"
    /\ UNCHANGED <<cfgArguments, cfgArgs, cfgTool>>
    /\ UNCHANGED <<invVars, sideVars>>

\* The ToolConfig under test: the registered one with these arguments, or a
\* descriptor made up of them.
ConfigUnderTest ==
    IF \E name \in GenericTools : ConfigOf(name).Arguments = cfgArguments
    THEN ConfigOf(CHOOSE name \in GenericTools : ConfigOf(name).Arguments = cfgArguments)
    ELSE [Name |-> "tool-under-test", Description |-> "A tool",
          Arguments |-> cfgArguments]

\* tc.BuildMCPTool()
ConfigBuild ==
    /\ cfgPc = "start"
    /\ cfgTool' = BuildMCPTool(ConfigUnderTest)
    /\ cfgPc' = "built"
    /\ UNCHANGED <<cfgArguments, cfgArgs, cfgErr>>
    /\ UNCHANGED <<invVars, sideVars>>

NextConfig ==
    \/ ConfigValidate
    \/ ConfigBuild

SpecConfig == InitConfig /\ [][NextConfig]_vars

\* ------------------------------------------------------------------------
\* Properties
\* ------------------------------------------------------------------------

\* The names a descriptor declares Required.
RequiredNames(arguments) ==
    {arguments[i].Name : i \in {j \in 1..Len(arguments) : arguments[j].Required}}

\* The positions of the required arguments that are no key of the map.
MissingAt(arguments, a) ==
    {i \in 1..Len(arguments) : arguments[i].Required /\ arguments[i].Name \notin DOMAIN a}

\* The first of them, in declaration order.
FirstMissing(arguments, a) ==
    CHOOSE i \in MissingAt(arguments, a) : \A j \in MissingAt(arguments, a) : i <= j

\* C1: ValidateArguments succeeds if and only if every argument declared
\* Required is a key of the argument map; undeclared keys, and the dynamic
\* type or nil-ness of the values of the keys present, do not change that.
C1_ValidateIffRequiredKeysPresent ==
    cfgPc = "validated" =>
        (cfgErr.nil <=> RequiredNames(cfgArguments) \subseteq DOMAIN cfgArgs)

\* Validation succeeded on a map with an undeclared key, a required key whose
\* value is nil and a required key (Name, a string) that holds no string.
C1_Witness ==
    /\ cfgPc = "validated"
    /\ cfgErr.nil
    /\ {"ID", "Name"} \subseteq RequiredNames(cfgArguments)
    /\ {"ID", "Name", "Extra"} \subseteq DOMAIN cfgArgs
    /\ cfgArgs["ID"].t = "nil"
    /\ cfgArgs["Name"].t = "nil"

\* C2: when required arguments are absent, ValidateArguments returns the one
\* error "missing required argument: <name>", <name> being the first missing
\* required argument in declaration order.
C2_FirstMissingIsNamed ==
    (cfgPc = "validated" /\ MissingAt(cfgArguments, cfgArgs) # {}) =>
        cfgErr = [nil |-> FALSE,
                  msg |-> <<"missing required argument: ",
                            cfgArguments[FirstMissing(cfgArguments, cfgArgs)].Name>>]

\* Two different required arguments are missing, the first of them after a
\* required argument that is present, and the error names the first.
C2_Witness ==
    /\ cfgPc = "validated"
    /\ \E i, j \in MissingAt(cfgArguments, cfgArgs) :
          /\ i < j
          /\ cfgArguments[i].Name # cfgArguments[j].Name
          /\ i > 1
          /\ cfgArguments[1].Required
          /\ cfgArguments[1].Name \in DOMAIN cfgArgs
          /\ cfgErr.msg = <<"missing required argument: ", cfgArguments[i].Name>>

\* C3: when validation fails in the entry point GenericToolHandler builds, the
\* invocation returns a fault result (error flag set, nil Go error) whose text
\* is the validation message, and the client factory, the handler and the
\* upstream client are never called.
C3_ValidationFaultCallsNothing ==
    (tool \in GenericTools /\ MissingAt(ConfigOf(tool).Arguments, args) # {}) =>
        /\ factoryCalls = 0
        /\ handlerCalls = 0
        /\ upstreamCalls = 0
        /\ goErr.nil
        /\ ~panicked
        /\ pc \in {"entered", "done"}
        /\ pc = "done" =>
              result = [nil |-> FALSE, isError |-> TRUE,
                        text |-> <<"missing required argument: ",
                                   ConfigOf(tool).Arguments[
                                       FirstMissing(ConfigOf(tool).Arguments, args)].Name>>]

\* droplet-create with Name, Size and ImageID but no Region has returned.
C3_Witness ==
    /\ tool = "droplet-create"
    /\ DOMAIN args = {"Name", "Size", "ImageID"}
    /\ pc = "done"
    /\ result.isError
    /\ result.text = <<"missing required argument: ", "Region">>
    /\ upstreamCalls = 0
    /\ factoryCalls = 0

\* C4: in GenericToolHandler, when validation passes and the client factory
\* returns an error, the invocation ends with a hard error (nil result,
\* non-nil Go error); the handler is not invoked and no upstream call is made.
C4_FactoryErrorIsHard ==
    (tool \in GenericTools /\ ~clientErr.nil) =>
        /\ pc = "done"
        /\ result.nil
        /\ ~goErr.nil
        /\ goErr.msg = <<"failed to get DigitalOcean client", ": ">> \o clientErr.msg
        /\ handlerCalls = 0
        /\ upstreamCalls = 0

\* droplet-get with a valid ID: validation passed, the factory failed.
C4_Witness ==
    /\ tool = "droplet-get"
    /\ MissingAt(ConfigOf(tool).Arguments, args) = {}
    /\ factoryCalls = 1
    /\ ~clientErr.nil
    /\ pc = "done"
    /\ ~goErr.nil

\* C5: whenever the upstream call of a handler returns an error, the result of
\* the invocation has the fault indicator set and the invocation does not end
\* with a Go error; for the GenericToolHandler tools and the legacy handlers.
C5_UpstreamErrorIsReportedFault ==
    (pc = "done" /\ answered /\ ~upResp.err.nil) =>
        /\ ~result.nil
        /\ result.isError
        /\ goErr.nil
        /\ ~panicked

\* The legacy getDropletByID has returned after an upstream error.
C5_Witness ==
    /\ tool = "getDropletByID"
    /\ pc = "done"
    /\ answered
    /\ upResp.err = [nil |-> FALSE, msg |-> <<"not found">>]
    /\ result.isError
    /\ goErr.nil

\* text holds the pieces of part, in order and adjacent.
Contains(text, part) ==
    \E i \in 1..(Len(text) - Len(part) + 1) :
        SubSeq(text, i, i + Len(part) - 1) = part

\* C6: a fault reported for an upstream error carries a text that begins with
\* "api error" and contains the upstream error text unchanged, for every tool
\* registered through GenericToolHandler (droplet-create included).
C6_FaultTextHasPrefixAndCause ==
    (tool \in GenericTools /\ pc = "done" /\ answered /\ ~upResp.err.nil) =>
        /\ result.isError
        /\ Len(result.text) >= 1
        /\ result.text[1] = "api error"
        /\ Contains(result.text, upResp.err.msg)

\* droplet-create has reported the upstream error "not found".
C6_Witness ==
    /\ tool = "droplet-create"
    /\ pc = "done"
    /\ answered
    /\ result.text = <<"api error", ": ", "droplet create", ": ", "not found">>

RECURSIVE HasNaN(_)
\* A float64 NaN lies somewhere in the value: encoding/json cannot write it.
HasNaN(v) ==
    \/ v.k = "float" /\ v.s = "NaN"
    \/ \E i \in 1..Len(v.e) : HasNaN(v.e[i])

AnswerHasNaN ==
    \/ HasNaN(DropletPointer(upResp.val.one))
    \/ \E i \in 1..Len(upResp.val.many) : HasNaN(DropletFields(upResp.val.many[i]))

\* C8: a failure to serialize a successful upstream result is a hard error
\* (nil result, non-nil Go error), never a reported fault result, in every
\* operation that serializes its result (the generic dispatcher and the legacy
\* create/list/get handlers).
C8_MarshalFailureIsHard ==
    (pc = "done" /\ answered /\ upResp.err.nil /\ AnswerHasNaN) =>
        /\ result.nil
        /\ ~goErr.nil

\* The same, for every modelled operation but the legacy createDroplet.
C8_HoldsOutsideCreateDroplet ==
    (tool # "createDroplet" /\ pc = "done" /\ answered /\ upResp.err.nil
        /\ AnswerHasNaN) =>
        /\ result.nil
        /\ ~goErr.nil

\* C9: no invocation of any tool performs more than one upstream call; after
\* an upstream error the handler makes no second attempt.
C9_AtMostOneUpstreamCall == upstreamCalls <= 1

\* An invocation is over whose only upstream call returned an error.
C9_Witness ==
    /\ pc = "done"
    /\ answered
    /\ ~upResp.err.nil
    /\ upstreamCalls = 1
    /\ tool = "droplet-list"

\* GetArgumentNumber yields 0 for the ID: absent, no number, or a number that
\* truncates to 0.
IDConvertsToZero(a) ==
    ~("ID" \in DOMAIN a /\ a["ID"].t = "number"
        /\ (a["ID"].n >= Scale \/ a["ID"].n <= -Scale))

\* C10 as stated: every invocation that reaches its handler issues exactly one
\* upstream call (never zero).
C10_ExactlyOneUpstreamCall ==
    (tool \in GenericTools /\ handlerCalls = 1 /\ pc \in {"respond", "done"}) =>
        upstreamCalls = 1

\* C10, amended: an invocation that reaches its handler issues exactly one
\* upstream call, except that droplet-get, droplet-delete and droplet-neighbors
\* return the error "Droplet ID is required" with no upstream call when the ID
\* converts to 0.
C10_ExactlyOneUnlessIDIsZero ==
    (tool \in GenericTools /\ handlerCalls = 1 /\ pc \in {"respond", "done"}) =>
        IF tool \in {"droplet-get", "droplet-delete", "droplet-neighbors"}
           /\ IDConvertsToZero(args)
        THEN /\ upstreamCalls = 0
             /\ hret.err = [nil |-> FALSE, msg |-> <<"Droplet ID is required">>]
        ELSE upstreamCalls = 1

\* droplet-delete with ID 0.5 has returned without an upstream call.
C10_Witness ==
    /\ tool = "droplet-delete"
    /\ "ID" \in DOMAIN args
    /\ args["ID"] = Num(Scale \div 2)
    /\ pc = "done"
    /\ handlerCalls = 1
    /\ upstreamCalls = 0
    /\ result.isError

\* What an invocation returns when it runs alone: a function of the tool, the
\* argument map, the error of the client factory and the answer of the
\* upstream call (read only where the run reaches them).
OutcomeOf(name, a, cerr, resp) ==
    IF name \in GenericTools
    THEN LET verr == ValidateArguments(ConfigOf(name).Arguments, a)
             c    == HandlerCallOf(name, a)
             r    == IF c.early THEN GenericRespond(HandlerResult(c.val, c.err))
                     ELSE GenericRespond(HandlerReturnOf(name, resp))
         IN IF ~verr.nil THEN <<NewToolResultError(verr.msg), NoError, FALSE>>
            ELSE IF ~cerr.nil
            THEN <<NilResult, Wrap("failed to get DigitalOcean client", cerr), FALSE>>
            ELSE <<r.result, r.err, FALSE>>
    ELSE LET c == LegacyCallOf(name, a)
             r == LegacyReturnOf(name, resp)
         IN CASE c.outcome = "panic" -> <<NilResult, NoError, TRUE>>
              [] c.outcome = "fault" -> <<c.result, NoError, FALSE>>
              [] c.outcome = "call"  ->
                    IF ~cerr.nil
                    THEN <<NilResult, Wrap("failed to get DigitalOcean client", cerr),
                           FALSE>>
                    ELSE <<r.result, r.err, FALSE>>

\* The invocation gets past the checks made before the client is obtained.
PassesValidation(name, a) ==
    IF name \in GenericTools
    THEN ValidateArguments(ConfigOf(name).Arguments, a).nil
    ELSE LegacyCallOf(name, a).outcome = "call"

\* The handler returns before its upstream call (ID converting to 0).
ReturnsEarly(name, a) == name \in GenericTools /\ HandlerCallOf(name, a).early

\* C11 as stated: in a sequence of invocations of the same operation with the
\* same arguments, each invocation that passes validation obtains a client and
\* issues its own upstream call, and its result is determined by its own
\* arguments and the answer to its own call.
C11_EachInvocationCallsUpstream ==
    (repeat.on /\ pc = "done" /\ PassesValidation(tool, args)) =>
        /\ factoryCalls = 1
        /\ clientErr.nil => upstreamCalls = 1 /\ answered
        /\ <<result, goErr, panicked>> = OutcomeOf(tool, args, clientErr, upResp)

\* C11, amended: each invocation that passes validation calls the client
\* factory and, when it obtains a client and its handler does not return
\* early on an ID that converts to 0, issues its own upstream call; what it
\* returns is a function of its own arguments, its own client error and the
\* answer to its own call, whatever an earlier invocation saw.
C11_NoMemoryOfPriorCalls ==
    (repeat.on /\ pc = "done") =>
        /\ PassesValidation(tool, args) =>
              /\ factoryCalls = 1
              /\ (clientErr.nil /\ ~ReturnsEarly(tool, args)) =>
                    upstreamCalls = 1 /\ answered
              /\ ReturnsEarly(tool, args) => upstreamCalls = 0
        /\ <<result, goErr, panicked>> = OutcomeOf(tool, args, clientErr, upResp)

\* The second droplet-get of the same ID has made its own upstream call and
\* returns the droplet it was answered, after the first was answered an error.
C11_Witness ==
    /\ repeat.on
    /\ repeat.seen
    /\ ninv = 1
    /\ tool = "droplet-get"
    /\ pc = "done"
    /\ repeat.answered
    /\ ~repeat.resp.err.nil
    /\ repeat.result.isError
    /\ upstreamCalls = 1
    /\ upResp.err.nil
    /\ ~result.isError
    /\ ~result.nil

\* The required arguments of the operations that have any, in the order their
\* descriptors declare them.
RequiredArgumentsOf(name) ==
    CASE name = "droplet-create" -> <<"Name", "Size", "ImageID", "Region">>
      [] name \in {"droplet-get", "droplet-delete", "droplet-neighbors"} -> <<"ID">>
      [] OTHER -> <<>>

\* The first of the names that is no key of the map; "" when none is missing.
RECURSIVE FirstAbsent(_, _)
FirstAbsent(names, a) ==
    IF names = <<>> THEN ""
    ELSE IF Head(names) \notin DOMAIN a THEN Head(names)
    ELSE FirstAbsent(Tail(names), a)

\* C12 as stated: for droplet-get, droplet-create, droplet-delete and
\* droplet-neighbors, an invocation with a required argument absent yields a
\* reported fault naming the argument, and an invocation with every required
\* argument present, against an upstream that succeeds, yields a non-fault
\* result.
C12_AbsentFaultsPresentSucceeds ==
    (RequiredArgumentsOf(tool) # <<>> /\ pc = "done") =>
        IF FirstAbsent(RequiredArgumentsOf(tool), args) # ""
        THEN /\ result.isError
             /\ goErr.nil
             /\ Contains(result.text, <<FirstAbsent(RequiredArgumentsOf(tool), args)>>)
        ELSE (clientErr.nil /\ (answered => upResp.err.nil)) =>
                /\ ~result.nil
                /\ ~result.isError
                /\ goErr.nil

\* C12, amended: with a required argument absent the result is a reported
\* fault naming the first absent one; with every required argument present,
\* a client obtained and the upstream succeeding with a value that can be
\* serialized, the result is no fault, provided the ID of droplet-get,
\* droplet-delete and droplet-neighbors converts to a non-zero integer; an ID
\* that is present but converts to 0 yields the reported fault
\* "api error: Droplet ID is required".
C12_AbsentFaultsValidSucceeds ==
    (RequiredArgumentsOf(tool) # <<>> /\ pc = "done") =>
        IF FirstAbsent(RequiredArgumentsOf(tool), args) # ""
        THEN /\ result = [nil |-> FALSE, isError |-> TRUE,
                          text |-> <<"missing required argument: ",
                                     FirstAbsent(RequiredArgumentsOf(tool), args)>>]
             /\ goErr.nil
        ELSE IF ~clientErr.nil THEN result.nil
        ELSE IF tool # "droplet-create" /\ IDConvertsToZero(args)
        THEN /\ result = [nil |-> FALSE, isError |-> TRUE,
                          text |-> <<"api error", ": ", "Droplet ID is required">>]
             /\ goErr.nil
             /\ ~answered
        ELSE /\ answered
             /\ (upResp.err.nil /\ ~AnswerHasNaN) =>
                    /\ ~result.nil
                    /\ ~result.isError
                    /\ goErr.nil

\* droplet-get with ID 456 has returned the droplet the upstream answered.
C12_Witness ==
    /\ tool = "droplet-get"
    /\ "ID" \in DOMAIN args
    /\ args["ID"] = Num(456 * Scale)
    /\ pc = "done"
    /\ answered
    /\ upResp.err.nil
    /\ ~upResp.val.one.nil
    /\ ~result.isError
    /\ ~result.nil

\* The handlers that default Page and PerPage.
PagingTools == {"droplet-list", "getDroplets", "listImages"}

\* The upstream request such a handler builds from an argument map.
PagingRequestOf(name, a) ==
    CASE name = "droplet-list" -> handleDropletListCall(a).req
      [] name = "getDroplets"  -> getDropletsCall(a).req
      [] name = "listImages"   -> listImagesCall(a).req

\* The map with Page=1 and PerPage=50 written out wherever the key is absent
\* or holds no number.
WithExplicitDefaults(a) ==
    [k \in DOMAIN a \cup {"Page", "PerPage"} |->
        IF k \in DOMAIN a /\ (k \notin {"Page", "PerPage"} \/ a[k].t = "number")
        THEN a[k]
        ELSE IF k = "Page" THEN Num(1 * Scale) ELSE Num(50 * Scale)]

\* The upstream call of a paging handler has been issued.
PagingCallIssued == tool \in PagingTools /\ upstreamCalls = 1

\* C13 as stated: with Page/PerPage absent or not numeric the handler sends
\* the list options it sends for Page=1 and PerPage=50 given explicitly, and a
\* numeric Page or PerPage that is supplied is forwarded unchanged, whether or
\* not the other one is supplied.
C13_DefaultsAndUnchangedForwarding ==
    PagingCallIssued =>
        /\ upReq = PagingRequestOf(tool, WithExplicitDefaults(args))
        /\ \A k \in {"Page", "PerPage"} :
              (k \in DOMAIN args /\ args[k].t = "number") =>
                  upReq.opt[k] * Scale = args[k].n

\* C13, amended: the defaults are as stated; a numeric Page or PerPage that is
\* supplied is forwarded truncated toward zero to an integer, except that
\* droplet-list replaces a value that truncates to 0 by the default (1 for
\* Page, 50 for PerPage).
C13_DefaultsAndTruncatedForwarding ==
    PagingCallIssued =>
        /\ upReq = PagingRequestOf(tool, WithExplicitDefaults(args))
        /\ \A k \in {"Page", "PerPage"} :
              IF k \in DOMAIN args /\ args[k].t = "number"
              THEN IF tool = "droplet-list" /\ TruncInt(args[k].n) = 0
                   THEN upReq.opt[k] = (IF k = "Page" THEN 1 ELSE 50)
                   ELSE upReq.opt[k] = TruncInt(args[k].n)
              ELSE upReq.opt[k] = (IF k = "Page" THEN 1 ELSE 50)

\* droplet-list was given PerPage=25 and a Page that is no number: it asks
\* for page 1 with 25 items.
C13_Witness ==
    /\ tool = "droplet-list"
    /\ upstreamCalls = 1
    /\ {"Page", "PerPage"} \subseteq DOMAIN args
    /\ args["Page"].t = "string"
    /\ args["PerPage"] = Num(25 * Scale)
    /\ upReq.opt = [Page |-> 1, PerPage |-> 25]

\* --- JSON texts ---------------------------------------------------------

\* The pieces of a text that are JSON white space.
IsSpace(piece) == piece \in {"\n", "  ", " "}

\* The decimal integers a text of the model can hold.
NumberPieces == {ToString(n) : n \in 0..999}

RECURSIVE SkipSpace(_, _)
\* The first position from i on that holds no white space.
SkipSpace(t, i) ==
    IF i <= Len(t) /\ IsSpace(t[i]) THEN SkipSpace(t, i + 1) ELSE i

\* A JSON string at position i: quote, content, quote. The position after it,
\* or 0.
ParseString(t, i) ==
    IF i + 2 <= Len(t) /\ t[i] = "\"" /\ t[i + 1] # "\"" /\ t[i + 2] = "\""
    THEN i + 3 ELSE 0

RECURSIVE ParseValue(_, _)
RECURSIVE ParseElements(_, _)
RECURSIVE ParseMembers(_, _)

\* The elements of an array after "[": value ("," value)* "]".
ParseElements(t, i) ==
    LET j == ParseValue(t, i)
        k == SkipSpace(t, j)
    IN IF j = 0 \/ k > Len(t) THEN 0
       ELSE IF t[k] = "," THEN ParseElements(t, k + 1)
       ELSE IF t[k] = "]" THEN k + 1
       ELSE 0

\* The members of an object after "{": string ":" value ("," ...)* "}".
ParseMembers(t, i) ==
    LET j == ParseString(t, SkipSpace(t, i))
    IN IF j = 0 \/ j > Len(t) \/ t[j] # ": " THEN 0
       ELSE LET v == ParseValue(t, j + 1)
                k == SkipSpace(t, v)
            IN IF v = 0 \/ k > Len(t) THEN 0
               ELSE IF t[k] = "," THEN ParseMembers(t, k + 1)
               ELSE IF t[k] = "}" THEN k + 1
               ELSE 0

\* A JSON value from position i on (after white space): the position after
\* it, or 0 when there is none.
ParseValue(t, i) ==
    LET j == SkipSpace(t, i)
    IN IF j > Len(t) THEN 0
       ELSE CASE t[j] \in {"null", "true", "false", "[]", "{}"} -> j + 1
              [] t[j] \in NumberPieces -> j + 1
              [] t[j] = "\"" -> ParseString(t, j)
              [] t[j] = "["  -> ParseElements(t, j + 1)
              [] t[j] = "{"  -> ParseMembers(t, j + 1)
              [] OTHER -> 0

\* The text is one JSON value, with nothing but white space around it.
IsValidJSON(t) ==
    LET j == ParseValue(t, 1)
    IN j # 0 /\ SkipSpace(t, j) = Len(t) + 1

\* The literal confirmation of the delete operations.
IsDeleteConfirmation(name, t) ==
    name \in {"droplet-delete", "deleteDroplet"} /\ t = <<"Droplet deleted successfully">>

\* C14: whenever the upstream call of an invocation succeeds, the result never
\* has the fault indicator set, and its text payload is valid JSON or, for
\* the delete operations, exactly the literal confirmation string.
C14_SuccessIsJSONOrConfirmation ==
    (pc = "done" /\ answered /\ upResp.err.nil) =>
        /\ ~result.isError
        /\ ~result.nil =>
              \/ IsValidJSON(result.text)
              \/ IsDeleteConfirmation(tool, result.text)

\* The same, for the answers json.MarshalIndent can serialize: there the
\* result is never nil either.
C14_HoldsWhenSerializable ==
    (pc = "done" /\ answered /\ upResp.err.nil /\ ~AnswerHasNaN) =>
        /\ ~result.isError
        /\ ~result.nil
        /\ goErr.nil
        /\ \/ IsValidJSON(result.text) /\ ~IsDeleteConfirmation(tool, result.text)
           \/ IsDeleteConfirmation(tool, result.text) /\ ~IsValidJSON(result.text)

\* The operations that take a JSON-encoded backup policy.
PolicyTools == {"createDroplet", "createMultipleDroplets"}

\* The other arguments are those of a well-formed request: they pass the
\* assertions and checks the handler makes before it parses the policy.
WellFormedCreate(name, a) ==
    IF name = "createDroplet"
    THEN /\ IsA(a, "Name", "string") /\ IsA(a, "Size", "string")
         /\ IsA(a, "ImageID", "number") /\ IsA(a, "Region", "string")
    ELSE /\ "Names" \in DOMAIN a
         /\ parseStringArray(a["Names"]).ok
         /\ parseStringArray(a["Names"]).v # <<>>
         /\ IsA(a, "Size", "string") /\ a["Size"].s # ""
         /\ IsA(a, "ImageID", "number")
         /\ IsA(a, "Region", "string") /\ a["Region"].s # ""

\* C15: createDroplet and createMultipleDroplets, given (in an otherwise
\* well-formed request) a non-empty BackupPolicy string that is not valid
\* JSON, return a fault result whose message indicates invalid JSON; they
\* obtain no client and make no upstream call.
C15_InvalidPolicyJSONIsFault ==
    (tool \in PolicyTools /\ PolicyJSONOf(args) = BrokenPolicyJSON) =>
        /\ factoryCalls = 0
        /\ upstreamCalls = 0
        /\ pc \in {"entered", "done"}
        /\ (pc = "done" /\ WellFormedCreate(tool, args)) =>
              /\ ~result.nil
              /\ result.isError
              /\ goErr.nil
              /\ ~panicked
              /\ Len(result.text) > 2
              /\ SubSeq(result.text, 1, 2) = <<"invalid backup policy json", ": ">>

\* createMultipleDroplets has returned the fault for the policy "{plan:".
C15_Witness ==
    /\ tool = "createMultipleDroplets"
    /\ WellFormedCreate(tool, args)
    /\ PolicyJSONOf(args) = BrokenPolicyJSON
    /\ ~IsValidJSON(<<PolicyJSONOf(args)>>)
    /\ pc = "done"
    /\ result.isError
    /\ result.text[1] = "invalid backup policy json"
    /\ factoryCalls = 0

\* The operations that build a create request from the SSHKeys array.
KeyTools == {"droplet-create", "createDroplet", "createMultipleDroplets"}

\* The elements of the SSHKeys argument; none when it is absent or no array.
RawKeys(a) == IF IsA(a, "SSHKeys", "array") THEN a["SSHKeys"].a ELSE <<>>

\* The key reference of one element: a number sets ID, a string Fingerprint.
KeyReference(e) ==
    IF e.t = "number" THEN [ID |-> TruncInt(e.n), Fingerprint |-> ""]
    ELSE [ID |-> 0, Fingerprint |-> e.s]

\* One reference for each numeric or string element, in the order of the input.
KeyReferences(raw) ==
    LET kept == SelectSeq(raw, LAMBDA e : e.t \in {"number", "string"})
    IN [i \in 1..Len(kept) |-> KeyReference(kept[i])]

\* The same, without the empty strings.
KeyReferencesNonEmpty(raw) ==
    LET kept == SelectSeq(raw, LAMBDA e : e.t = "number" \/ (e.t = "string" /\ e.s # ""))
    IN [i \in 1..Len(kept) |-> KeyReference(kept[i])]

\* A create request has been built.
CreateRequestBuilt ==
    tool \in KeyTools /\ upReq.method \in {"Droplets.Create", "Droplets.CreateMultiple"}

DescriptorInvariant(arg) ==
    /\ arg.Required => arg.DefaultValue.t = "nil"
    /\ (~arg.Required /\ arg.DefaultValue.t # "nil") =>
          /\ arg.DefaultValue.t = arg.Type
          /\ arg.Type \in {"number", "boolean", "string", "array"}

\* C17: every argument descriptor of every registered operation descriptor
\* satisfies: if Required then DefaultValue is absent, and if not Required and
\* DefaultValue is present then the default's runtime type matches the
\* declared Type.
C17_DescriptorsAreWellFormed ==
    /\ \A name \in GenericTools :
          \A i \in 1..Len(ConfigOf(name).Arguments) :
              DescriptorInvariant(ConfigOf(name).Arguments[i])
    /\ (tool \in GenericTools /\ pc # "idle") =>
          \A i \in 1..Len(ConfigOf(tool).Arguments) :
              /\ DescriptorInvariant(ConfigOf(tool).Arguments[i])
              /\ ConfigOf(tool).Name = tool

\* droplet-create is being served: its descriptor has required arguments
\* without default, optional ones with a boolean default and optional ones
\* without default.
C17_Witness ==
    /\ tool = "droplet-create"
    /\ pc = "upstream"
    /\ \E i, j, k \in 1..Len(ConfigOf(tool).Arguments) :
          LET arg == ConfigOf(tool).Arguments
          IN /\ arg[i].Required /\ arg[i].DefaultValue = Nil
             /\ ~arg[j].Required /\ arg[j].DefaultValue = Bool(FALSE)
                /\ arg[j].Type = ArgumentTypeBoolean
             /\ ~arg[k].Required /\ arg[k].DefaultValue = Nil

\* No two entries of the descriptor have the same name.
DistinctNames(arguments) ==
    \A i, j \in 1..Len(arguments) : arguments[i].Name = arguments[j].Name => i = j

\* The names of the Required entries, in declaration order.
RequiredInOrder(arguments) ==
    LET req == SelectSeq(arguments, LAMBDA arg : arg.Required)
    IN [i \in 1..Len(req) |-> req[i].Name]

\* The property record carries the type, the description and, exactly when
\* the descriptor declares one, the default of the argument.
RecordMirrors(prop, arg) ==
    /\ DOMAIN prop = {"type", "description"}
                       \cup (IF arg.DefaultValue.t = "nil" THEN {} ELSE {"default"})
    /\ prop["type"] = [t |-> "string", n |-> 0, s |-> arg.Type, b |-> FALSE, a |-> <<>>]
    /\ prop["description"] =
          [t |-> "string", n |-> 0, s |-> arg.Description, b |-> FALSE, a |-> <<>>]
    /\ arg.DefaultValue.t # "nil" => prop["default"] = arg.DefaultValue

\* C18: the schema BuildMCPTool returns is determined by the descriptor: one
\* property record per declared argument (per name; of two entries with one
\* name the later one stays), carrying type, description and the default
\* exactly when one is declared, and a required list that holds exactly the
\* names of the Required arguments in declaration order.
C18_SchemaMirrorsDescriptor ==
    cfgPc = "built" =>
        LET schema == cfgTool.InputSchema
            last(i) == \A j \in 1..Len(cfgArguments) :
                          cfgArguments[j].Name = cfgArguments[i].Name => j <= i
        IN /\ schema.Type = "object"
           /\ DOMAIN schema.Properties =
                 {cfgArguments[i].Name : i \in 1..Len(cfgArguments)}
           /\ DistinctNames(cfgArguments) =>
                 Cardinality(DOMAIN schema.Properties) = Len(cfgArguments)
           /\ \A i \in 1..Len(cfgArguments) :
                 last(i) => RecordMirrors(schema.Properties[cfgArguments[i].Name],
                                          cfgArguments[i])
           /\ schema.Required = RequiredInOrder(cfgArguments)
           /\ cfgTool.Name = ConfigUnderTest.Name
           /\ cfgTool.Description = ConfigUnderTest.Description

\* The schema of droplet-create is built: eight property records, the
\* required list Name, Size, ImageID, Region, a default on Backup only among
\* Backup and SSHKeys.
C18_Witness ==
    /\ cfgPc = "built"
    /\ cfgTool.Name = "droplet-create"
    /\ Cardinality(DOMAIN cfgTool.InputSchema.Properties) = 8
    /\ cfgTool.InputSchema.Required = <<"Name", "Size", "ImageID", "Region">>
    /\ "default" \in DOMAIN cfgTool.InputSchema.Properties["Backup"]
    /\ "default" \notin DOMAIN cfgTool.InputSchema.Properties["SSHKeys"]

\* C19: concurrent invocations of the same or different operations do not
\* interact: in every interleaving of the steps of two invocations, what each
\* invocation returns is what it returns when run alone with the same
\* arguments, the same client error and the same upstream answer, and each
\* makes the calls it makes when run alone.
C19_ConcurrentInvocationsDoNotInteract ==
    \A p \in DOMAIN conc :
        conc[p].pc = "done" =>
            /\ <<conc[p].result, conc[p].goErr, FALSE>> =
                  OutcomeOf(conc[p].tool, conc[p].args, conc[p].clientErr,
                            conc[p].upResp)
            /\ conc[p].factoryCalls =
                  (IF PassesValidation(conc[p].tool, conc[p].args) THEN 1 ELSE 0)
            /\ conc[p].upstreamCalls =
                  (IF /\ PassesValidation(conc[p].tool, conc[p].args)
                      /\ conc[p].clientErr.nil
                      /\ ~ReturnsEarly(conc[p].tool, conc[p].args)
                   THEN 1 ELSE 0)

\* Two invocations of droplet-get with the same ID ran side by side: one was
\* answered an error and the other a droplet, and each returns its own.
C19_Witness ==
    /\ DOMAIN conc = {1, 2}
    /\ conc[1].tool = "droplet-get" /\ conc[2].tool = "droplet-get"
    /\ conc[1].args = conc[2].args
    /\ conc[1].pc = "done" /\ conc[2].pc = "done"
    /\ conc[1].upstreamCalls = 1 /\ conc[2].upstreamCalls = 1
    /\ ~conc[1].upResp.err.nil /\ conc[1].result.isError
    /\ conc[2].upResp.err.nil /\ ~conc[2].result.isError /\ ~conc[2].result.nil

\* C20: when the caller's context is cancelled during an invocation and the
\* upstream call honors the cancellation by returning an error, the invocation
\* ends with a reported fault result that carries the cancellation error, not
\* with a hard error or a panic.
C20_CancellationIsReportedFault ==
    (tool \in GenericTools /\ pc = "done" /\ ~ctxErr.nil /\ answered
        /\ upResp.err = ctxErr) =>
        /\ ~result.nil
        /\ result.isError
        /\ goErr.nil
        /\ ~panicked
        /\ result.text[1] = "api error"
        /\ result.text[Len(result.text)] = "context canceled"

\* droplet-list was cancelled while it ran; its upstream call returned
\* "context canceled" and the invocation reports the fault.
C20_Witness ==
    /\ tool = "droplet-list"
    /\ pc = "done"
    /\ ctxErr = [nil |-> FALSE, msg |-> <<"context canceled">>]
    /\ upstreamCalls = 1
    /\ upResp.err = ctxErr
    /\ result = [nil |-> FALSE, isError |-> TRUE,
                 text |-> <<"api error", ": ", "api error", ": ", "context canceled">>]
    /\ goErr.nil

\* ------------------------------------------------------------------------
\* Panics
\* ------------------------------------------------------------------------

\* The arguments each registration declares required (mcp.Required() for the
\* legacy tools, Required: true for the descriptors).
RequiredOfTool(name) ==
    CASE name \in GenericTools -> RequiredNames(ConfigOf(name).Arguments)
      [] name \in {"enablePrivateNetworking", "getDropletKernels", "getDropletByID",
                   "deleteDroplet", "getDropletNeighbors", "getDropletBackupPolicy",
                   "listDropletSnapshots", "listDropletBackups", "listDropletActions",
                   "listDropletSnapshots'", "listDropletBackups'",
                   "listDropletActions'"} -> {"ID"}
      [] name = "getDropletActionByID" -> {"DropletID", "ActionID"}
      [] name = "createDroplet" -> {"Name", "Size", "ImageID", "Region"}
      [] name = "createMultipleDroplets" -> {"Names", "Size", "ImageID", "Region"}
      [] OTHER -> {}

\* An expected failure mode: a required argument is no key of the map, or the
\* upstream call answered with an error.
ExpectedFailure ==
    \/ RequiredOfTool(tool) \ DOMAIN args # {}
    \/ answered /\ ~upResp.err.nil

\* C21: no registered handler panics on an expected failure mode: an
\* invocation with a required argument missing, or with an upstream error,
\* completes by returning an error value or a fault result; this includes the
\* legacy tools droplet-enable-private-net and droplet-kernels invoked
\* without ID.
C21_NoPanicOnExpectedFailure ==
    (pc = "done" /\ ExpectedFailure) =>
        /\ ~panicked
        /\ result.isError \/ ~goErr.nil

\* What does hold: the handlers built from descriptors, and the legacy
\* handlers that test their type assertions, end an expected failure with a
\* fault result or an error value.
C21_HoldsWhereAssertionsAreChecked ==
    (pc = "done" /\ ExpectedFailure /\ ~panicked) =>
        result.isError \/ ~goErr.nil

\* ------------------------------------------------------------------------
\* Frame: what an invocation leaves alone
\* ------------------------------------------------------------------------

\* C22: ValidateArguments and GenericToolHandler leave the descriptor and the
\* caller's argument map unchanged on every path: from the entry of a
\* ToolConfig invocation to its return no step changes the map or a
\* descriptor, and the descriptors are the declared ones throughout; the
\* defaults of optional arguments are applied to the handler's locals and
\* never written into the map.
C22_DescriptorAndArgumentsUnchanged ==
    /\ [](configs = Declared)
    /\ [][(tool \in GenericTools /\ pc # "done") =>
              (args' = args /\ configs' = configs)]_vars

\* droplet-list has been answered for a map without Page and PerPage: the
\* upstream call carried the defaults and the map still holds neither key.
C22_Witness ==
    /\ tool = "droplet-list" /\ pc = "done" /\ ~result.isError /\ goErr.nil
    /\ upReq.opt = ListOptions(DefaultPage, DefaultPerPage)
    /\ DOMAIN args \cap {"Page", "PerPage"} = {}

\* ------------------------------------------------------------------------
\* The dispatch of listImages
\* ------------------------------------------------------------------------

\* The four upstream list calls of the image service.
ImageListCalls ==
    {"Images.List", "Images.ListDistribution", "Images.ListApplication", "Images.ListUser"}

\* The list call the Type argument stands for.
SelectedByType(a) ==
    IF "Type" \in DOMAIN a /\ a["Type"].t = "string"
    THEN CASE a["Type"].s = "distribution" -> "Images.ListDistribution"
           [] a["Type"].s = "application"  -> "Images.ListApplication"
           [] a["Type"].s = "user"         -> "Images.ListUser"
           [] OTHER                        -> "Images.List"
    ELSE "Images.List"

\* The map without its Type key.
WithoutType(a) == [k \in DOMAIN a \ {"Type"} |-> a[k]]

\* C23: an invocation of listImages that obtains a client executes exactly
\* one of the four upstream list calls, selected by the Type argument:
\* "distribution" selects ListDistribution, "application" ListApplication,
\* "user" ListUser, and any other value, a value that is no string, or an
\* absent Type selects List; the list options passed are those built from
\* Page and PerPage, the same whichever call is selected.
C23_OneListCallSelectedByType ==
    (tool = "listImages" /\ pc = "done" /\ factoryCalls = 1 /\ clientErr.nil) =>
        /\ upstreamCalls = 1
        /\ answered
        /\ upReq.method \in ImageListCalls
        /\ upReq.method = SelectedByType(args)
        /\ \A a \in MapsOver(ArgChoices("listImages")) :
              WithoutType(a) = WithoutType(args) =>
                  listImagesCall(a).req.opt = upReq.opt

\* listImages has been answered for Type "user" with Page and PerPage given:
\* the one call made was ListUser with those options.
C23_Witness ==
    /\ tool = "listImages" /\ pc = "done" /\ upstreamCalls = 1 /\ ~result.isError
    /\ "Type" \in DOMAIN args /\ args["Type"] = Str("user")
    /\ upReq.method = "Images.ListUser"
    /\ upReq.opt = ListOptions(2, 25)

\* ------------------------------------------------------------------------
\* The extended create flow against the original one
\* ------------------------------------------------------------------------

\* The optional arguments the extended create flow added.
NewCreateFields ==
    {"IPv6", "VPCUUID", "UserData", "Volumes", "WithDropletAgent", "BackupPolicy"}

\* createDroplet has been entered with none of the added arguments.
CreateWithoutNewFields ==
    /\ tool = "createDroplet" /\ pc \notin {"idle", "entered"}
    /\ DOMAIN args \cap NewCreateFields = {}

\* C24: for every argument map that contains none of IPv6, VPCUUID, UserData,
\* Volumes, WithDropletAgent and BackupPolicy, the extended createDroplet
\* sends the upstream create request the original createDroplet sends (and
\* sends none where the original sends none); the added request fields stay
\* at their zero values, WithDropletAgent and BackupPolicy stay nil.
C24_ExtendedCreateSendsOriginalRequest ==
    CreateWithoutNewFields =>
        /\ createDropletCall(args) = originalCreateDropletCall(args)
        /\ upstreamCalls = 1 =>
              /\ upReq = originalCreateDropletCall(args).req
              /\ upReq.body.IPv6 = FALSE /\ upReq.body.VPCUUID = ""
              /\ upReq.body.UserData = "" /\ upReq.body.Volumes = <<>>
              /\ upReq.body.WithDropletAgent = "nil"
              /\ upReq.body.BackupPolicy = "nil"

\* What does hold: the two agree on every such map whose SSHKeys holds no
\* empty string.
C24_HoldsWithoutEmptyKeys ==
    (CreateWithoutNewFields
     /\ ("SSHKeys" \in DOMAIN args => \A i \in 1..Len(args["SSHKeys"].a) :
                                          args["SSHKeys"].a[i] # Str(""))) =>
        /\ createDropletCall(args) = originalCreateDropletCall(args)
        /\ upstreamCalls = 1 => upReq = originalCreateDropletCall(args).req

\* ------------------------------------------------------------------------
\* Legacy handlers that take a droplet identifier
\* ------------------------------------------------------------------------

\* The handlers and the argument that carries the droplet identifier.
IdentifierOf(name) == IF name = "getDropletActionByID" THEN "DropletID" ELSE "ID"

\* The versions of the list handlers that assert the ID without a test.
AssertingListDropletTools ==
    {"listDropletSnapshots'", "listDropletBackups'", "listDropletActions'"}

IdentifierHandlers ==
    {"getDropletByID", "getDropletBackupPolicy", "getDropletActionByID",
     "listDropletSnapshots", "listDropletBackups", "listDropletActions"}
    \cup AssertingListDropletTools

\* The identifier is no key of the map, or its value is no number.
IdentifierUnusable(name, a) ==
    IdentifierOf(name) \notin DOMAIN a \/ a[IdentifierOf(name)].t # "number"

\* C25: for the legacy handlers that take a droplet identifier
\* (getDropletByID, getDropletBackupPolicy, getDropletActionByID,
\* listDropletSnapshots, listDropletBackups, listDropletActions), an
\* invocation whose identifier is absent or not a number returns a fault
\* result and invokes neither the client factory nor any upstream call.
C25_UnusableIdentifierIsFault ==
    (tool \in IdentifierHandlers /\ pc = "done" /\ IdentifierUnusable(tool, args)) =>
        /\ ~panicked
        /\ result.isError /\ goErr.nil
        /\ factoryCalls = 0 /\ upstreamCalls = 0

\* What does hold: the versions that test the assertion return the fault, and
\* no version reaches the client factory or the upstream.
C25_HoldsWhereTheIdentifierIsTested ==
    (tool \in IdentifierHandlers /\ pc = "done" /\ IdentifierUnusable(tool, args)) =>
        /\ factoryCalls = 0 /\ upstreamCalls = 0
        /\ tool \notin AssertingListDropletTools =>
              ~panicked /\ result.isError /\ goErr.nil

\* ------------------------------------------------------------------------
\* The two outcomes of the generic entry point
\* ------------------------------------------------------------------------

\* C26: every invocation of the GenericToolHandler entry point ends with
\* exactly one of two outcomes: a non-nil result with a nil Go error (success
\* or reported fault), or a nil result with a non-nil Go error (hard fault);
\* never both non-nil, never both nil.
C26_ResultXorError ==
    (tool \in GenericTools /\ pc = "done") =>
        /\ ~panicked
        /\ \/ ~result.nil /\ goErr.nil
           \/ result.nil /\ ~goErr.nil

\* An invocation has ended in a hard fault after its upstream call answered
\* without error: the result is nil and the Go error is the marshal error.
C26_Witness ==
    /\ tool \in GenericTools /\ pc = "done"
    /\ answered /\ upResp.err.nil
    /\ result.nil /\ ~goErr.nil
    /\ Head(goErr.msg) = "json marshal error"

\* ------------------------------------------------------------------------
\* Droplet ID 0 in the descriptor-built handlers
\* ------------------------------------------------------------------------

\* The descriptor-built handlers that take a droplet ID.
GenericIDTools == {"droplet-get", "droplet-delete", "droplet-neighbors"}

\* C27: droplet-get, droplet-delete and droplet-neighbors never issue an
\* upstream call with droplet ID 0: when the ID is present but is 0,
\* truncates to 0 or is no number, the handler is reached (the client factory
\* has been called once by then), returns the error "Droplet ID is required",
\* reported as the fault "api error: Droplet ID is required", and the
\* invocation ends with zero upstream calls.
C27_NoUpstreamCallWithIDZero ==
    tool \in GenericIDTools =>
        /\ upstreamCalls > 0 => upReq.id # 0
        /\ (pc = "done" /\ "ID" \in DOMAIN args /\ IDConvertsToZero(args)) =>
              /\ factoryCalls = 1
              /\ upstreamCalls = 0
              /\ clientErr.nil =>
                    /\ handlerCalls = 1
                    /\ hret.err = Error(<<"Droplet ID is required">>)
                    /\ result = NewToolResultError(
                                   <<"api error", ": ", "Droplet ID is required">>)
                    /\ goErr.nil

\* droplet-neighbors with ID "456" (a string) has ended: one factory call, no
\* upstream call, the fault "api error: Droplet ID is required".
C27_Witness ==
    /\ tool = "droplet-neighbors" /\ pc = "done"
    /\ "ID" \in DOMAIN args /\ args["ID"] = Str("456")
    /\ factoryCalls = 1 /\ upstreamCalls = 0 /\ handlerCalls = 1
    /\ result.isError

\* ------------------------------------------------------------------------
\* The descriptor-built tools against the legacy handlers they replace
\* ------------------------------------------------------------------------

\* The tools moved to descriptors, and the legacy handler each replaces.
MigratedTools == {"droplet-list", "droplet-get", "droplet-delete", "droplet-neighbors"}

LegacyOf(name) ==
    CASE name = "droplet-list"      -> "getDroplets"
      [] name = "droplet-get"       -> "getDropletByID"
      [] name = "droplet-delete"    -> "deleteDroplet"
      [] name = "droplet-neighbors" -> "getDropletNeighbors"

\* A migrated tool has ended for a map its legacy handler takes without
\* panicking.
MigratedDone ==
    /\ tool \in MigratedTools /\ pc = "done"
    /\ LegacyCallOf(LegacyOf(tool), args).outcome # "panic"

\* The upstream request the invocation sent (NoRequest: none), and the one
\* the legacy handler sends for the same map and the same client factory.
SentRequest == IF upstreamCalls = 1 THEN upReq ELSE NoRequest

LegacySentRequest ==
    LET c == LegacyCallOf(LegacyOf(tool), args)
    IN IF c.outcome = "call" /\ clientErr.nil THEN c.req ELSE NoRequest

\* What the legacy handler returns for the same map, client factory outcome
\* and upstream answer.
LegacyResult == OutcomeOf(LegacyOf(tool), args, clientErr, upResp)[1]

\* C28 as stated: for every argument map the legacy handler accepts without
\* panicking and every upstream outcome, the migrated tool and the legacy
\* handler send the same upstream request and return the same fault flag and
\* the same result text.
C28_MigratedEqualsLegacy ==
    MigratedDone =>
        /\ SentRequest = LegacySentRequest
        /\ result.isError = LegacyResult.isError
        /\ result.text = LegacyResult.text

\* The maps on which both build the same request: a numeric ID that does not
\* truncate to 0; Page and PerPage absent, no number, or not truncating to 0.
SameRequestInput(name, a) ==
    IF name = "droplet-list"
    THEN \A k \in {"Page", "PerPage"} :
            (k \in DOMAIN a /\ a[k].t = "number") => TruncInt(a[k].n) # 0
    ELSE ~IDConvertsToZero(a)

\* C28, amended: on those maps both send the same upstream request; when the
\* upstream call succeeds both return the same non-fault result text (or both
\* no result, when serialization fails), and when it fails both return a
\* fault, the text of the migrated tool being "api error: " followed by the
\* text of the legacy handler.
C28_MigratedEqualsLegacyOnSuccess ==
    (MigratedDone /\ SameRequestInput(tool, args)) =>
        /\ SentRequest = LegacySentRequest
        /\ result.isError = LegacyResult.isError
        /\ (answered /\ upResp.err.nil) =>
              /\ result = LegacyResult
              /\ ~result.isError
        /\ (answered /\ ~upResp.err.nil) =>
              /\ result.isError
              /\ result.text = <<"api error", ": ">> \o LegacyResult.text

\* droplet-list has answered Page=2, PerPage=25 with a list of one droplet:
\* the text is the one getDroplets returns for it.
C28_Witness ==
    /\ tool = "droplet-list" /\ pc = "done"
    /\ {"Page", "PerPage"} \subseteq DOMAIN args
    /\ args["Page"] = Num(2 * Scale) /\ args["PerPage"] = Num(25 * Scale)
    /\ answered /\ upResp.err.nil /\ Len(upResp.val.many) = 1
    /\ ~result.nil /\ ~result.isError
    /\ result = LegacyResult

\* ------------------------------------------------------------------------
\* Wrong-typed required arguments of droplet-create
\* ------------------------------------------------------------------------

\* The required arguments of droplet-create that must be strings.
CreateStringArguments == {"Name", "Size", "Region"}

\* Every required key is present and at least one holds a value of the wrong
\* dynamic type.
WrongTypedRequired(a) ==
    /\ {"Name", "Size", "ImageID", "Region"} \subseteq DOMAIN a
    /\ \/ \E k \in CreateStringArguments : a[k].t # "string"
       \/ a["ImageID"].t # "number"

\* C29: in the generic droplet-create, a required argument that is present
\* with the wrong dynamic type (Name, Size or Region no string, ImageID no
\* number) passes validation; the handler reads it as the zero value ("" or
\* 0) and, once a client is obtained, the upstream Create call is issued with
\* that zero value; a fault is reported only if the upstream call fails.
C29_WrongTypeIsSentAsZeroValue ==
    (tool = "droplet-create" /\ WrongTypedRequired(args)) =>
        /\ pc = "done" => factoryCalls = 1
        /\ (pc = "done" /\ clientErr.nil) =>
              /\ upstreamCalls = 1
              /\ upReq.method = "Droplets.Create"
              /\ \A k \in CreateStringArguments :
                    upReq.body[k] = IF args[k].t = "string" THEN args[k].s ELSE ""
              /\ upReq.body.Image = IF args["ImageID"].t = "number"
                                    THEN TruncInt(args["ImageID"].n) ELSE 0
              /\ result.isError <=> ~upResp.err.nil

\* droplet-create with Name=7 and ImageID="456" has succeeded: the request
\* sent carried the name "" and the image 0.
C29_Witness ==
    /\ tool = "droplet-create" /\ pc = "done"
    /\ {"Name", "Size", "ImageID", "Region"} \subseteq DOMAIN args
    /\ args["Name"] = Num(7 * Scale) /\ args["ImageID"] = Str("456")
    /\ upstreamCalls = 1 /\ upReq.body.Name = "" /\ upReq.body.Image = 0
    /\ ~result.nil /\ ~result.isError

\* ------------------------------------------------------------------------
\* The advertised schema against the validator
\* ------------------------------------------------------------------------

\* The names a descriptor declares.
DeclaredNames(arguments) == {arguments[i].Name : i \in 1..Len(arguments)}

\* The names whose absence makes ValidateArguments fail: validation of the
\* map that holds every declared name but this one returns an error.
NamesValidationNeeds(arguments) ==
    {n \in DeclaredNames(arguments) :
        ~ValidateArguments(arguments,
                           [k \in DeclaredNames(arguments) \ {n} |-> Str("x")]).nil}

\* The names in a required list.
ListedNames(required) == {required[i] : i \in 1..Len(required)}

\* C30: for every operation descriptor the advertised schema and the
\* validator agree: the set of names in the required list BuildMCPTool
\* produces equals the set of argument names whose absence makes
\* ValidateArguments fail, and every declared argument has a property record
\* in the schema; so validation of a map succeeds exactly when the map holds
\* every name the schema of the same descriptor lists as required.
C30_SchemaAndValidatorAgree ==
    /\ cfgPc = "built" =>
          /\ ListedNames(cfgTool.InputSchema.Required) = NamesValidationNeeds(cfgArguments)
          /\ DeclaredNames(cfgArguments) = DOMAIN cfgTool.InputSchema.Properties
    /\ cfgPc = "validated" =>
          (cfgErr.nil <=>
              ListedNames(BuildMCPTool(ConfigUnderTest).InputSchema.Required)
                  \subseteq DOMAIN cfgArgs)

\* The schema of a descriptor with a required and an optional argument has
\* been built: one name is listed as required, two have property records.
C30_Witness ==
    /\ cfgPc = "built"
    /\ Len(cfgArguments) = 2
    /\ Len(cfgTool.InputSchema.Required) = 1
    /\ Cardinality(DOMAIN cfgTool.InputSchema.Properties) = 2
    /\ NamesValidationNeeds(cfgArguments) = {cfgTool.InputSchema.Required[1]}

====
